---------------------------- MODULE Spec2Model ----------------------------
(***************************************************************************)
(* The beat schedulers of the sonification scripts:                        *)
(*   beat_maker_ecg_emg.py      generate_song_structure        ("ecg_emg")  *)
(*   beat_maker_more_sensors.py generate_song_structure        ("chest")    *)
(*   beat_maker_more_sensors.py generate_wrist_song_structure  ("wrist")    *)
(* together with the two mode classifiers, the segment loops of the two     *)
(* main() functions, the end of compose() in make_one_song.py, create_beat  *)
(* of beat_maker.py and the window loop of WESADProcessor._extract_features.*)
(*                                                                          *)
(* Numbers.  Times are exact rationals of milliseconds, kept as integers    *)
(* in units of 1/TimeScale ms, so that 60000 / bpm is exact for every       *)
(* tempo the model draws.  Normalised intensities (0.0 .. 1.0) are kept in  *)
(* hundredths (0 .. 100), so the threshold 0.15 is 15.                      *)
(*                                                                          *)
(* Tracks.  A signal track is an immutable input array.  The loop reads it  *)
(* at an index that never decreases, so the model draws the sample of an    *)
(* index when the loop first reaches that index and keeps it for as long    *)
(* as the index stays the same.  A segment longer than SegSec is run on      *)
(* tracks that are constant over the whole segment: there the normalised    *)
(* value of a channel is what the code's min-max normalisation makes of a   *)
(* channel whose minimum equals its maximum.                                *)
(***************************************************************************)
EXTENDS Integers, Sequences, FiniteSets

\* ------------------------------------------------------------- bounds
\* Length of the rendered segment in seconds (SEGMENT_DURATION_SEC is 60).
SegSec == 5
\* How often a classifier is called on the same arguments.
MaxCalls == 2
\* Length in frames of a master built overlay by overlay, how many overlays it
\* takes, and the width in bits of a sample (16 in the audio of the scripts).
MasterFrames == 3
MaxTriggers == 2
SampleBits == 3
\* Length in samples of the song that compose() finalises.
SongFrames == 2
\* How many of the four labels of segments_to_process main() loops over.
NumSegments == 2
\* Length in samples of the labels that create_beat arranges.
MaxBeatLen == 2
\* Length in samples of a feature window (WINDOW_SAMPLES is 21000) and of the
\* longest recording that _extract_features is run on.
WindowSamples == 2
MaxLabels == 5

\* ---------------------------------------------------------- constants
TimeScale == 7 * 9 * 13 * 19
\* inf, as a time longer than any segment of the model
Inf == 20000 * TimeScale

MinBpmEcg == 65
MaxBpmEcg == 135
MinBpm == 60
MaxBpm == 140
ChorusBpm == 90
LookaheadMs == 2000
RespWindowSec == 5
DefaultRespRate == 15

KickMs == 100
SnareMs == 150
HihatMs == 50
MeditationNoteMs == 2500
AmusementNoteMs == 300

SCALE_LEN == 8
VERSE_PROG == <<"C", "Am", "C", "Am">>
CHORUS_PROG == <<"F", "G", "Em", "Am">>
BASE_PROG == <<"C", "Am", "F", "G">>

\* nan, as a value that fails every comparison the schedulers make with it
\* (they compare normalised values with > only)
NaN == 0 - 1000

Modes == {"BASELINE", "STRESS", "AMUSEMENT", "MEDITATION"}
Variants == {"ecg_emg", "chest", "wrist"}

\* ------------------------------------------------------------- inputs
\* Sampling rates of the tracks in Hz (DATA_SAMPLING_RATE is 700).
Rates == {1}
\* Raw values of the tempo track (beats per minute, before clamping).
HrValues == {0, 70, 95, 200}
EdaValues == {0, 50}
EmgValues == {0, 18, 30, 55}
AccValues == {0, 18, 35, 55}
SwellValues == {0, 100}
TempValues == {50}
RespRateValues == {10, 20}

\* Lengths, in seconds, of the segments that are run on constant tracks.
LongSecs == {8, 10}
\* The raw value of a constant channel, and the temperature of a constant track.
RawValues == {0, 7}
LongTempValues == {0, 50}

\* Arguments of the classifiers: tempos of the clamped range and intensities
\* around every threshold.
ArgHr == {60, 70, 74, 75, 76, 85, 86, 95, 140}
ArgEda == {0, 40, 41, 100}
ArgEmg == {0, 20, 21, 100}
ArgResp == {10, 14, 15, 16}
ArgAcc == {0, 19, 20, 30, 31, 100}

\* ------------------------------------------------------------ helpers
Min(a, b) == IF a < b THEN a ELSE b
Max(a, b) == IF a > b THEN a ELSE b

\* np.clip(x, lo, hi)
Clip(x, lo, hi) == Min(Max(x, lo), hi)

\* 60000 / bpm, in 1/TimeScale ms.  numpy's float division by zero is inf.
MsPerBeat(bpm) == IF bpm = 0 THEN Inf ELSE (60000 * TimeScale) \div bpm

\* milliseconds as a time of the model
Ms(n) == n * TimeScale

\* total_sec * 1000
SegmentMs(total) == Ms(total * 1000)

\* (total_sec * 1000) - 2000
LoopLimit(total) == SegmentMs(total) - Ms(LookaheadMs)

\* ms_per_beat * 2 written for ms_per_beat / 2.
HalfBeatDoubled(t, ms) == t + (ms * 2)

\* position=current_time_ms + (ms_per_beat / 2)
HalfBeat(t, ms) == t + (ms \div 2)

\* int((current_time_ms / 1000) * rate)
RawIdx(t, r) == (t * r) \div (1000 * TimeScale)

\* min(int((current_time_ms / 1000) * rate), len(ecg_rate) - 1)
SecIdx(t, r, n) == Min(RawIdx(t, r), n - 1)

\* The buffer written whole, past the end of the master.
OverlayLenUntruncated(len, pos, dur) ==
    LET head == Min(pos, len)
        seg1_len == len - head
    IN head + dur + Max(0, seg1_len - dur)

\* len(full_mix.overlay(seg, position=pos)): the master up to the position, the
\* buffer cut to what remains of the master and added to it, the rest of the
\* master.
OverlayLen(len, pos, dur) ==
    LET head == Min(pos, len)
        seg1_len == len - head
        seg2_len == IF dur >= seg1_len THEN seg1_len ELSE dur
    IN head + seg2_len + (seg1_len - seg2_len)

\* (x - min) / (max - min + eps), in hundredths; eps in thousandths of the raw
\* unit.  numpy's 0 / 0 is nan.
MinMaxNorm(x, lo, hi, eps_milli) ==
    LET den == ((hi - lo) * 1000) + eps_milli
    IN IF den = 0 THEN NaN ELSE ((x - lo) * 1000 * 100) \div den

\* The epsilon of a scheduler's normalisation: + 0.001 in the wrist scheduler,
\* none in the other two.
NormEps(v) == IF v = "wrist" THEN 1 ELSE 0

\* What a scheduler's normalisation makes of a constant channel.
FlatNorm(v) == {MinMaxNorm(c, c, c, NormEps(v)) : c \in RawValues}

\* ------------------------------------------------------- classifiers
\* The AMUSEMENT check moved in front of the STRESS check.
determine_musical_mode_amusement_first(hr_bpm, eda_norm, resp_rate_bpm, emg_norm) ==
    IF hr_bpm < 75 /\ resp_rate_bpm < 15 THEN "MEDITATION"
    ELSE IF hr_bpm > 75 /\ emg_norm > 20 THEN "AMUSEMENT"
    ELSE IF hr_bpm > 85 /\ eda_norm > 40 THEN "STRESS"
    ELSE "BASELINE"

\* The AMUSEMENT check with hr_bpm >= 75.
determine_musical_mode_from_75(hr_bpm, eda_norm, resp_rate_bpm, emg_norm) ==
    IF hr_bpm < 75 /\ resp_rate_bpm < 15 THEN "MEDITATION"
    ELSE IF hr_bpm > 85 /\ eda_norm > 40 THEN "STRESS"
    ELSE IF hr_bpm >= 75 /\ emg_norm > 20 THEN "AMUSEMENT"
    ELSE "BASELINE"

determine_musical_mode(hr_bpm, eda_norm, resp_rate_bpm, emg_norm) ==
    IF hr_bpm < 75 /\ resp_rate_bpm < 15 THEN "MEDITATION"
    ELSE IF hr_bpm > 85 /\ eda_norm > 40 THEN "STRESS"
    ELSE IF hr_bpm > 75 /\ emg_norm > 20 THEN "AMUSEMENT"
    ELSE "BASELINE"

\* The final return dropped: a call that matches no check returns None.
determine_musical_mode_wrist_no_default(hr_bpm, eda_norm, acc_intensity) ==
    IF hr_bpm < 75 /\ acc_intensity < 20 THEN "MEDITATION"
    ELSE IF hr_bpm > 85 /\ eda_norm > 40 THEN "STRESS"
    ELSE IF acc_intensity > 30 THEN "AMUSEMENT"
    ELSE "None"

determine_musical_mode_wrist(hr_bpm, eda_norm, acc_intensity) ==
    IF hr_bpm < 75 /\ acc_intensity < 20 THEN "MEDITATION"
    ELSE IF hr_bpm > 85 /\ eda_norm > 40 THEN "STRESS"
    ELSE IF acc_intensity > 30 THEN "AMUSEMENT"
    ELSE "BASELINE"

\* ------------------------------------------------------------- state
VARIABLES
    variant,           \* which scheduler is running
    total_sec,         \* its total_sec argument
    rate,              \* its rate / bvp_sampling_rate argument
    n_samples,         \* len(ecg_rate) / len(bvp_rate)
    n_feature,         \* the length of every other track, at the tempo track's rate
    pc,                \* "loop" while the while-loop runs, "done" after return,
                       \* "raised" after an IndexError left the function
    current_time_ms,
    beat_counter,
    chord_idx,
    last_melody_idx,   \* last_melody_note_idx in beat_maker_ecg_emg.py
    current_mode,
    sec_idx,           \* index of the last snapshot
    track_at,          \* the tracks' samples at sec_idx
    emg_idx,           \* index of the last EMG read
    emg_at,            \* emg_norm[emg_idx]
    cur,               \* the locals of the last step: bpm, ms_per_beat, ...
    emitted,           \* the overlays of the last step
    full_mix_ms,       \* len(full_mix) in ms
    call_fn,           \* the classifier called directly, "-" in a scheduler run
    call_args,         \* its arguments
    call_results,      \* what each call so far returned
    master_a,          \* the frames of a master built by overlays
    master_b,          \* the frames of a second master, on which they are replayed
    pending,           \* the overlays made on master_a and not yet on master_b
    last_overlay,      \* the last overlay on master_a and the master before it
    n_trig,            \* how many overlays master_a has taken
    covered,           \* the frames that the overlays so far range over
    overlapped,        \* two of them have ranged over the same frame
    reordered,         \* the replay has taken an overlay before an older one
    rerendered,        \* the replay has rendered a buffer unlike the first
    script,            \* the script whose main() is running, "-" outside main()
    missing,           \* the device whose channels the recording lacks, or "none"
    main_pc,           \* where main() is: "load", "for", "extract", "run",
                       \* "wrist_check", "returned", "crashed"
    seg,               \* the position in segments_to_process of the current label
    files,             \* the exported files: what was rendered, by file name
    report,            \* what main() has printed of each segment
    song_pc,           \* where compose() of make_one_song.py is: "mixed",
                       \* "normalised", "written"; "-" outside compose()
    mix_in,            \* np.concatenate(full_song), in thousandths of full scale
    master_track,      \* master_track, in ten-thousandths of full scale
    wav,               \* the 16-bit samples written to the file
    beat_labels,       \* labels, the argument of create_beat
    beat_rate,         \* rate
    kick_indices,      \* the event indices of the three instruments
    hihat_indices,
    snare_indices,
    beat_pc,           \* the for loop create_beat is in: "kick", "hihat", "snare";
                       \* "returned" after it; "-" outside create_beat
    beat_i,            \* the position of that loop in its list, from 1
    output_audio,      \* the overlays made on output_audio
    duration_ms,       \* the length of the silent track
    feat_labels,       \* data['label'], the input of _extract_features
    start_idx,         \* the loop variable of its for loop
    feat_pc,           \* "for" in the loop, "returned" after it, "-" outside
    examined,          \* the start_idx of every window the loop body has run on
    features_to_create \* the records appended so far

schedVars == <<variant, total_sec, rate, n_samples, n_feature, pc, current_time_ms,
               beat_counter, chord_idx, last_melody_idx, current_mode, sec_idx,
               track_at, emg_idx, emg_at, cur, emitted, full_mix_ms>>
callVars == <<call_fn, call_args, call_results>>
mixVars == <<master_a, master_b, pending, last_overlay, n_trig, covered, overlapped,
             reordered, rerendered>>
runVars == <<script, missing, main_pc, seg, files, report>>
songVars == <<song_pc, mix_in, master_track, wav>>
beatVars == <<beat_labels, beat_rate, kick_indices, hihat_indices, snare_indices,
              beat_pc, beat_i, output_audio, duration_ms>>
featVars == <<feat_labels, start_idx, feat_pc, examined, features_to_create>>
vars == <<schedVars, callVars, mixVars, runVars, songVars, beatVars, featVars>>

\* One overlay: instrument, position, duration and the instrument's arguments.
Trig(inst, off, dur, chord, note, level, gain) ==
    [inst |-> inst, off |-> off, dur |-> dur, chord |-> chord,
     note |-> note, level |-> level, gain |-> gain]

\* The samples the tracks can hold at index idx.  temp is the mean of temp_norm
\* over the second that starts at idx; rr is the mean of resp_rate_sig over the
\* five seconds that end at idx, a window the chest scheduler reads only when
\* idx > rate * 5.
Samples(v, idx, r) ==
    IF v = "ecg_emg" THEN
        [hr : HrValues, eda : {0}, swell : {0}, temp : {0}, rr : {0}, acc : {0}]
    ELSE IF v = "chest" THEN
        [hr : HrValues, eda : EdaValues, swell : SwellValues, temp : TempValues,
         rr : IF idx > r * RespWindowSec THEN RespRateValues ELSE {0}, acc : {0}]
    ELSE
        [hr : HrValues, eda : EdaValues, swell : {0}, temp : TempValues,
         rr : {0}, acc : AccValues]

EmgSamples(v) == IF v = "wrist" THEN {0} ELSE EmgValues

\* The samples of tracks that are constant over the segment: the tempo, the
\* respiration rate and the temperature (which is clipped, not min-max
\* normalised) hold any constant, a min-max normalised channel holds what the
\* scheduler's normalisation makes of a constant.
ConstantSamples(v) ==
    IF v = "ecg_emg" THEN
        [hr : HrValues, eda : {0}, swell : {0}, temp : {0}, rr : {0}, acc : {0}]
    ELSE IF v = "chest" THEN
        [hr : HrValues, eda : FlatNorm(v), swell : FlatNorm(v), temp : LongTempValues,
         rr : RespRateValues, acc : {0}]
    ELSE
        [hr : HrValues, eda : FlatNorm(v), swell : {0}, temp : LongTempValues,
         rr : {0}, acc : FlatNorm(v)]

ConstantEmgSamples(v) == IF v = "wrist" THEN {0} ELSE FlatNorm(v)

\* The lengths of the tempo track and of the other tracks: both cover the
\* segment (what main() passes), or one of the two covers half of it or is
\* empty.
LengthPairs(n) == {<<n, n>>, <<n \div 2, n>>, <<n, n \div 2>>, <<0, n>>, <<n, 0>>}

NoLocals ==
    [pos |-> 0, bpm |-> 0, ms_per_beat |-> 0, eda |-> 0, emg |-> 0, swell |-> 0,
     temp |-> 0, resp_rate |-> 0, acc |-> 0, beat |-> 0 - 1, melodic |-> FALSE,
     old_mode |-> "BASELINE"]

NoArgs == [hr |-> 0, eda |-> 0, resp |-> 0, emg |-> 0, acc |-> 0]

NoCall ==
    /\ call_fn = "-"
    /\ call_args = NoArgs
    /\ call_results = <<>>

NoOverlay == [pos |-> 0, buf |-> <<>>, before |-> <<>>]

\* No master of frames is being built.
NoMix ==
    /\ master_a = <<>>
    /\ master_b = <<>>
    /\ pending = <<>>
    /\ last_overlay = NoOverlay
    /\ n_trig = 0
    /\ covered = {}
    /\ overlapped = FALSE
    /\ reordered = FALSE
    /\ rerendered = FALSE

\* No main() is running.
NoRun ==
    /\ script = "-"
    /\ missing = "none"
    /\ main_pc = "-"
    /\ seg = 0
    /\ files = <<>>
    /\ report = <<>>

\* No compose() is running.
NoSong ==
    /\ song_pc = "-"
    /\ mix_in = <<>>
    /\ master_track = <<>>
    /\ wav = <<>>

\* Outside create_beat.
NoBeat ==
    /\ beat_labels = <<>>
    /\ beat_rate = 1
    /\ kick_indices = <<>>
    /\ hihat_indices = <<>>
    /\ snare_indices = <<>>
    /\ beat_pc = "-"
    /\ beat_i = 1
    /\ output_audio = <<>>
    /\ duration_ms = 0

\* Outside _extract_features.
NoFeat ==
    /\ feat_labels = <<>>
    /\ start_idx = 0
    /\ feat_pc = "-"
    /\ examined = {}
    /\ features_to_create = <<>>

\* The scheduler's variables outside a scheduler run.
NoSched ==
    /\ variant = "chest"
    /\ total_sec = SegSec
    /\ rate = 1
    /\ n_samples = SegSec
    /\ n_feature = SegSec
    /\ pc = "done"
    /\ current_time_ms = 0
    /\ beat_counter = 0
    /\ chord_idx = 0
    /\ last_melody_idx = 0
    /\ current_mode = "BASELINE"
    /\ sec_idx = 0
    /\ track_at = [hr |-> 0, eda |-> 0, swell |-> 0, temp |-> 0, rr |-> 0, acc |-> 0]
    /\ emg_idx = 0
    /\ emg_at = 0
    /\ cur = NoLocals
    /\ emitted = {}
    /\ full_mix_ms = 0

\* The tracks of this run are constant over the segment.
ConstantTracks == total_sec > SegSec

Init ==
    /\ NoCall
    /\ NoMix
    /\ NoRun
    /\ NoSong
    /\ variant \in Variants
    /\ total_sec \in {SegSec} \cup LongSecs
    /\ rate \in Rates
    /\ \E p \in LengthPairs(total_sec * rate) :
         /\ n_samples = p[1]
         /\ n_feature = p[2]
    /\ pc = "loop"
    /\ current_time_ms = 0
    /\ beat_counter = 0
    /\ chord_idx = 0
    /\ last_melody_idx = 0
    /\ current_mode = "BASELINE"
    /\ sec_idx = 0
    /\ track_at \in IF ConstantTracks THEN ConstantSamples(variant)
                    ELSE Samples(variant, 0, rate)
    /\ emg_idx = 0
    /\ emg_at \in IF ConstantTracks THEN ConstantEmgSamples(variant)
                  ELSE EmgSamples(variant)
    /\ cur = NoLocals
    /\ emitted = {}
    /\ full_mix_ms = total_sec * 1000
    /\ NoBeat
    /\ NoFeat

\* min(sec_idx, len(eda_resampled) - 1): the wrist scheduler clamps the index
\* of every track to that track.
FeatIdx(idx) == Min(idx, n_feature - 1)

\* The snapshot of an index: the one already read, or a new draw.  Where the
\* wrist scheduler's clamped index of the other tracks stays the same, so do
\* their samples.
SnapshotAt(idx) ==
    IF idx = sec_idx \/ ConstantTracks THEN {track_at}
    ELSE {s \in Samples(variant, idx, rate) :
            (variant = "wrist" /\ FeatIdx(idx) = FeatIdx(sec_idx)) =>
                /\ s.eda = track_at.eda
                /\ s.temp = track_at.temp
                /\ s.acc = track_at.acc}
EmgAt(idx) == IF idx = emg_idx \/ ConstantTracks THEN {emg_at} ELSE EmgSamples(variant)

\* len(full_mix) in ms after the overlays es, made one after the other.
RECURSIVE MixLen(_, _)
MixLen(len, es) ==
    IF es = {} THEN len
    ELSE LET e == CHOOSE x \in es : TRUE
         IN CHOOSE r \in {MixLen(l, rest) : l \in {OverlayLen(len, e.off, e.dur)},
                                            rest \in {es \ {e}}} : TRUE

FullMixMs(len_ms, es) ==
    CHOOSE r \in {MixLen(Ms(len_ms), overlays) \div TimeScale : overlays \in {es}} : TRUE

\* progression[chord_idx % 4]
ChordOfBar(prog, cidx) == prog[(cidx % 4) + 1]

\* ------------------------------------------- beat_maker_ecg_emg.py
\* progression = CHORUS_PROG if is_chorus else VERSE_PROG
Progression(is_chorus) == IF is_chorus THEN CHORUS_PROG ELSE VERSE_PROG

\* The np.clip dropped.
EcgNewIdxUnclipped(last, step) == last + step

\* new_idx = np.clip(last_melody_note_idx + step, 0, len(SCALE) - 1)
EcgNewIdx(last, step) == Clip(last + step, 0, SCALE_LEN - 1)

\* step = 1 if emg_val > 0.5 else -1
EcgMelodyStep(emg_val) == IF emg_val > 50 THEN 1 ELSE 0 - 1

\* bpm = np.clip(ecg_rate[sec_idx], 65, 135)
EcgBpm(raw) == Clip(raw, MinBpmEcg, MaxBpmEcg)

EcgTriggers(t, ms, beat, cidx, is_chorus, emg_val, new_idx) ==
    {Trig("hihat", t, Ms(HihatMs), "-", 0 - 1, 0 - 1, 0)}
    \cup (IF is_chorus
          THEN {Trig("hihat", HalfBeat(t, ms), Ms(HihatMs), "-", 0 - 1, 0 - 1, 0 - 5)}
          ELSE {})
    \cup (IF beat % 4 = 0 \/ beat % 4 = 2
          THEN {Trig("kick", t, Ms(KickMs), "-", 0 - 1, 0 - 1, 0)} ELSE {})
    \cup (IF beat % 4 = 1 \/ beat % 4 = 3
          THEN {Trig("snare", t, Ms(SnareMs), "-", 0 - 1, 0 - 1, 0)} ELSE {})
    \cup (IF beat % 4 = 0
          THEN {Trig("pad_chord", t, ms * 4,
                     ChordOfBar(Progression(is_chorus), cidx),
                     0 - 1, 0 - 1, IF is_chorus THEN 3 ELSE 0)}
          ELSE {})
    \cup (IF emg_val > 20
          THEN {Trig("piano", t, ms, "-", new_idx, 0 - 1, 0)} ELSE {})

EcgStep ==
    /\ variant = "ecg_emg"
    /\ pc = "loop"
    /\ current_time_ms < LoopLimit(total_sec)
    /\ n_samples > 0
    /\ LET idx == SecIdx(current_time_ms, rate, n_samples)
           eidx == RawIdx(current_time_ms, rate)
       IN /\ eidx < n_feature
          /\ \E s \in SnapshotAt(idx), emg_val \in EmgAt(eidx) :
            LET bpm == EcgBpm(s.hr)
                ms == MsPerBeat(bpm)
                is_chorus == bpm > ChorusBpm
                melodic == emg_val > 20
                new_idx == EcgNewIdx(last_melody_idx, EcgMelodyStep(emg_val))
            IN /\ sec_idx' = idx
               /\ track_at' = s
               /\ emg_idx' = eidx
               /\ emg_at' = emg_val
               /\ cur' = [pos |-> current_time_ms, bpm |-> bpm, ms_per_beat |-> ms,
                          eda |-> 0, emg |-> emg_val, swell |-> 0, temp |-> 0,
                          resp_rate |-> 0, acc |-> 0, beat |-> beat_counter,
                          melodic |-> melodic, old_mode |-> current_mode]
               /\ emitted' = EcgTriggers(current_time_ms, ms, beat_counter, chord_idx,
                                         is_chorus, emg_val, new_idx)
               /\ full_mix_ms' = FullMixMs(full_mix_ms,
                                    EcgTriggers(current_time_ms, ms, beat_counter,
                                                chord_idx, is_chorus, emg_val, new_idx))
               /\ chord_idx' = IF beat_counter % 4 = 0 THEN chord_idx + 1 ELSE chord_idx
               /\ last_melody_idx' = IF melodic THEN new_idx ELSE last_melody_idx
               /\ current_time_ms' = current_time_ms + ms
               /\ beat_counter' = beat_counter + 1
    /\ UNCHANGED <<variant, total_sec, rate, n_samples, n_feature, pc, current_mode>>
    /\ UNCHANGED callVars
    /\ UNCHANGED mixVars
    /\ UNCHANGED runVars
    /\ UNCHANGED songVars
    /\ UNCHANGED beatVars
    /\ UNCHANGED featVars

\* ------------------------- beat_maker_more_sensors.py, chest scheduler
\* Only the upper bound of the clip kept.
CurBpmNoFloor(raw) == Min(raw, MaxBpm)

\* Only the lower bound of the clip kept.
CurBpmNoCeiling(raw) == Max(raw, MinBpm)

\* cur_bpm = np.clip(ecg_rate[sec_idx], 60, 140)
CurBpm(raw) == Clip(raw, MinBpm, MaxBpm)

\* The window read from the first second on (CurRespRateNoDefault).
\* cur_resp_rate = np.mean(resp_rate_sig[...]) if sec_idx > rate * 5 else 15
\* (a loop that ends before second 6 of the segment, as in the runs of SegSec
\* seconds, never reads the window: its respiration rate is 15 throughout, and
\* the chest classifier, which needs a rate below 15, never returns MEDITATION
\* there)
CurRespRateNoDefault(idx, r, window_mean) == window_mean

CurRespRate(idx, r, window_mean) ==
    IF idx > r * RespWindowSec THEN window_mean ELSE DefaultRespRate

\* The bar test dropped: the classifier runs on every beat.
ChestModeEveryBeat(mode, beat, bpm, eda, resp_rate, emg) ==
    determine_musical_mode(bpm, eda, resp_rate, emg)

\* if beat_counter % 4 == 0: current_mode = determine_musical_mode(...)
ChestMode(mode, beat, bpm, eda, resp_rate, emg) ==
    IF beat % 4 = 0 THEN determine_musical_mode(bpm, eda, resp_rate, emg) ELSE mode

\* A piano note is overlaid and last_melody_idx moves in this step.
ChestMelodic(mode, beat, emg) ==
    \/ mode = "MEDITATION" /\ beat % 2 = 0 /\ emg > 10
    \/ mode = "AMUSEMENT" /\ emg > 15

\* The AMUSEMENT melody leaps by a third instead of a step.
ChestMelodyNextLeap(mode, beat, emg, last) ==
    IF mode = "MEDITATION" /\ beat % 2 = 0 /\ emg > 10 THEN last + 1
    ELSE IF mode = "AMUSEMENT" /\ emg > 15
         THEN (IF emg > 40 THEN last + 2 ELSE last - 2)
    ELSE last

\* last_melody_idx += 1 (MEDITATION);  += 1 if cur_emg > 0.4 else -1 (AMUSEMENT)
ChestMelodyNext(mode, beat, emg, last) ==
    IF mode = "MEDITATION" /\ beat % 2 = 0 /\ emg > 10 THEN last + 1
    ELSE IF mode = "AMUSEMENT" /\ emg > 15
         THEN (IF emg > 40 THEN last + 1 ELSE last - 1)
    ELSE last

\* Layer 1: the temperature drone and the breathing pad, every step.
ChestTextures(t, ms, cidx, temp, swell) ==
    {Trig("drone", t, ms, "-", 0 - 1, temp, 0),
     Trig("breathing_pad", t, ms, ChordOfBar(BASE_PROG, cidx), 0 - 1, swell, 0)}

\* The power chord rendered at full intensity, whatever the EDA.
GuitarChordFullIntensity(t, ms, cidx, eda) ==
    Trig("guitar", t, ms * 4, ChordOfBar(BASE_PROG, cidx), 0 - 1, 100, 0)

\* get_guitar_chord(BASE_PROG[chord_idx % 4], cur_eda, dur_ms=ms_per_beat * 4)
GuitarChord(t, ms, cidx, eda) ==
    Trig("guitar", t, ms * 4, ChordOfBar(BASE_PROG, cidx), 0 - 1, eda, 0)

\* Kick on beats 1 and 3 of the bar, snare on beats 2 and 4.
BaselineDrumsBackbeat(t, beat, hihat_gain) ==
    (IF beat % 4 = 0 \/ beat % 4 = 2
     THEN {Trig("kick", t, Ms(KickMs), "-", 0 - 1, 0 - 1, 0)} ELSE {})
    \cup (IF beat % 4 = 1 \/ beat % 4 = 3
          THEN {Trig("snare", t, Ms(SnareMs), "-", 0 - 1, 0 - 1, 0)} ELSE {})
    \cup {Trig("hihat", t, Ms(HihatMs), "-", 0 - 1, 0 - 1, hihat_gain)}

\* BASELINE: kick on beat 1 of the bar, snare on beat 3, a soft hi-hat on
\* every beat.
BaselineDrums(t, beat, hihat_gain) ==
    (IF beat % 4 = 0
     THEN {Trig("kick", t, Ms(KickMs), "-", 0 - 1, 0 - 1, 0)} ELSE {})
    \cup (IF beat % 4 = 2
          THEN {Trig("snare", t, Ms(SnareMs), "-", 0 - 1, 0 - 1, 0)} ELSE {})
    \cup {Trig("hihat", t, Ms(HihatMs), "-", 0 - 1, 0 - 1, hihat_gain)}

\* The chord index advanced on every beat.
ChordIdxNextEveryBeat(cidx, beat) == cidx + 1

\* beat_counter += 1;  if beat_counter % 4 == 0: chord_idx += 1
ChordIdxNext(cidx, beat) == IF (beat + 1) % 4 = 0 THEN cidx + 1 ELSE cidx

\* The BASELINE drums played in every mode.
ChestModeTriggersOnePattern(mode, t, ms, beat, cidx, last, eda, emg) ==
    BaselineDrums(t, beat, 0 - 10)

\* Layer 2: the instruments of the active mode.
ChestModeTriggers(mode, t, ms, beat, cidx, last, eda, emg) ==
    IF mode = "MEDITATION" THEN
        (IF beat % 2 = 0 /\ emg > 10
         THEN {Trig("piano", t, Ms(MeditationNoteMs), "-", last % 8, 0 - 1, 0 - 15)}
         ELSE {})
    ELSE IF mode = "STRESS" THEN
        {Trig("kick", t, Ms(KickMs), "-", 0 - 1, 0 - 1, 2),
         Trig("hihat", t, Ms(HihatMs), "-", 0 - 1, 0 - 1, 0),
         Trig("hihat", HalfBeat(t, ms), Ms(HihatMs), "-", 0 - 1, 0 - 1, 0 - 5)}
        \cup (IF beat % 2 = 1
              THEN {Trig("snare", t, Ms(SnareMs), "-", 0 - 1, 0 - 1, 0)} ELSE {})
        \cup (IF beat % 4 = 0
              THEN {GuitarChord(t, ms, cidx, eda)}
              ELSE {})
    ELSE IF mode = "AMUSEMENT" THEN
        (IF beat % 4 = 0 \/ beat % 4 = 2
         THEN {Trig("kick", t, Ms(KickMs), "-", 0 - 1, 0 - 1, 0)} ELSE {})
        \cup (IF beat % 4 = 1 \/ beat % 4 = 3
              THEN {Trig("snare", t, Ms(SnareMs), "-", 0 - 1, 0 - 1, 0)} ELSE {})
        \cup {Trig("hihat", HalfBeat(t, ms), Ms(HihatMs), "-", 0 - 1, 0 - 1, 0)}
        \cup (IF emg > 15
              THEN {Trig("piano", t, Ms(AmusementNoteMs), "-", last % 8, 0 - 1, 0)}
              ELSE {})
    ELSE BaselineDrums(t, beat, 0 - 10)

\* Every overlay of a step of the chest scheduler.
ChestTriggers(mode, t, ms, beat, cidx, last, s, emg) ==
    ChestTextures(t, ms, cidx, s.temp, s.swell)
    \cup ChestModeTriggers(mode, t, ms, beat, cidx, last, s.eda, emg)

ChestStep ==
    /\ variant = "chest"
    /\ pc = "loop"
    /\ current_time_ms < LoopLimit(total_sec)
    /\ n_samples > 0
    /\ LET idx == SecIdx(current_time_ms, rate, n_samples)
       IN /\ idx < n_feature
          /\ \E s \in SnapshotAt(idx), cur_emg \in EmgAt(idx) :
            LET bpm == CurBpm(s.hr)
                ms == MsPerBeat(bpm)
                resp_rate == CurRespRate(idx, rate, s.rr)
                mode == ChestMode(current_mode, beat_counter, bpm, s.eda, resp_rate, cur_emg)
            IN /\ sec_idx' = idx
               /\ track_at' = s
               /\ emg_idx' = idx
               /\ emg_at' = cur_emg
               /\ current_mode' = mode
               /\ cur' = [pos |-> current_time_ms, bpm |-> bpm, ms_per_beat |-> ms,
                          eda |-> s.eda, emg |-> cur_emg, swell |-> s.swell,
                          temp |-> s.temp, resp_rate |-> resp_rate, acc |-> 0,
                          beat |-> beat_counter,
                          melodic |-> ChestMelodic(mode, beat_counter, cur_emg),
                          old_mode |-> current_mode]
               /\ emitted' = ChestTriggers(mode, current_time_ms, ms, beat_counter,
                                           chord_idx, last_melody_idx, s, cur_emg)
               /\ full_mix_ms' = FullMixMs(full_mix_ms,
                                    ChestTriggers(mode, current_time_ms, ms, beat_counter,
                                                  chord_idx, last_melody_idx, s, cur_emg))
               /\ last_melody_idx' = ChestMelodyNext(mode, beat_counter, cur_emg,
                                                     last_melody_idx)
               /\ current_time_ms' = current_time_ms + ms
               /\ beat_counter' = beat_counter + 1
               /\ chord_idx' = ChordIdxNext(chord_idx, beat_counter)
    /\ UNCHANGED <<variant, total_sec, rate, n_samples, n_feature, pc>>
    /\ UNCHANGED callVars
    /\ UNCHANGED mixVars
    /\ UNCHANGED runVars
    /\ UNCHANGED songVars
    /\ UNCHANGED beatVars
    /\ UNCHANGED featVars

\* ------------------------- beat_maker_more_sensors.py, wrist scheduler
\* if beat_counter % 4 == 0: current_mode = determine_musical_mode_wrist(...)
WristMode(mode, beat, bpm, eda, acc) ==
    IF beat % 4 = 0 THEN determine_musical_mode_wrist(bpm, eda, acc) ELSE mode

WristMelodic(mode, beat, acc) ==
    \/ mode = "MEDITATION" /\ beat % 2 = 0 /\ acc > 10
    \/ mode = "AMUSEMENT" /\ acc > 15

\* The AMUSEMENT cursor moved on every beat, note or no note.
WristMelodyNextUngated(mode, beat, acc, last) ==
    IF mode = "MEDITATION" /\ beat % 2 = 0 /\ acc > 10 THEN last + 1
    ELSE IF mode = "AMUSEMENT"
         THEN (IF acc > 40 THEN last + 1 ELSE last - 1)
    ELSE last

WristMelodyNext(mode, beat, acc, last) ==
    IF mode = "MEDITATION" /\ beat % 2 = 0 /\ acc > 10 THEN last + 1
    ELSE IF mode = "AMUSEMENT" /\ acc > 15
         THEN (IF acc > 40 THEN last + 1 ELSE last - 1)
    ELSE last

\* The drone rendered with its default duration of 1000 ms.
WristTexturesDefaultDur(t, ms, temp) == {Trig("drone", t, Ms(1000), "-", 0 - 1, temp, 0)}

\* Layer 1: the temperature drone, every step.
WristTextures(t, ms, temp) == {Trig("drone", t, ms, "-", 0 - 1, temp, 0)}

\* int(ms_per_beat * 0.3) and int(ms_per_beat * 0.25): whole milliseconds
IntMsTimes(ms, num, den) == Ms((ms * num) \div (den * TimeScale))

WristModeTriggers(mode, t, ms, beat, cidx, last, eda, acc) ==
    IF mode = "MEDITATION" THEN
        (IF beat % 2 = 0 /\ acc > 10
         THEN {Trig("piano", t, Ms(MeditationNoteMs), "-", last % 8, 0 - 1, 0 - 15)}
         ELSE {})
    ELSE IF mode = "STRESS" THEN
        {Trig("kick", t, Ms(KickMs), "-", 0 - 1, 0 - 1, 2),
         Trig("hihat", t, Ms(HihatMs), "-", 0 - 1, 0 - 1, 0),
         Trig("hihat", HalfBeat(t, ms), Ms(HihatMs), "-", 0 - 1, 0 - 1, 0 - 5)}
        \cup (IF beat % 2 = 1
              THEN {Trig("snare", t, Ms(SnareMs), "-", 0 - 1, 0 - 1, 0)} ELSE {})
        \cup (IF beat % 4 = 0
              THEN {GuitarChord(t, ms, cidx, eda)}
              ELSE {})
    ELSE IF mode = "AMUSEMENT" THEN
        (IF beat % 4 = 0 \/ beat % 4 = 2
         THEN {Trig("kick", t, Ms(KickMs), "-", 0 - 1, 0 - 1, 0)} ELSE {})
        \cup (IF beat % 4 = 1 \/ beat % 4 = 3
              THEN {Trig("snare", t, Ms(SnareMs), "-", 0 - 1, 0 - 1, 0)} ELSE {})
        \cup {Trig("hihat", HalfBeat(t, ms), Ms(HihatMs), "-", 0 - 1, 0 - 1, 0)}
        \cup (IF acc > 15
              THEN {Trig("piano", t, Ms(AmusementNoteMs), "-", last % 8, 0 - 1, 0)}
              ELSE {})
        \cup (IF acc > 30
              THEN {Trig("movement_perc", t + IntMsTimes(ms, 25, 100),
                         IntMsTimes(ms, 3, 10), "-", 0 - 1, acc, 0)}
              ELSE {})
    ELSE BaselineDrums(t, beat, 0 - 12)

\* Every overlay of a step of the wrist scheduler.
WristTriggers(mode, t, ms, beat, cidx, last, s) ==
    WristTextures(t, ms, s.temp)
    \cup WristModeTriggers(mode, t, ms, beat, cidx, last, s.eda, s.acc)

WristStep ==
    /\ variant = "wrist"
    /\ pc = "loop"
    /\ current_time_ms < LoopLimit(total_sec)
    /\ n_samples > 0
    /\ n_feature > 0
    /\ LET idx == SecIdx(current_time_ms, rate, n_samples)
       IN \E s \in SnapshotAt(idx) :
            LET bpm == CurBpm(s.hr)
                ms == MsPerBeat(bpm)
                mode == WristMode(current_mode, beat_counter, bpm, s.eda, s.acc)
            IN /\ sec_idx' = idx
               /\ track_at' = s
               /\ current_mode' = mode
               /\ cur' = [pos |-> current_time_ms, bpm |-> bpm, ms_per_beat |-> ms,
                          eda |-> s.eda, emg |-> 0, swell |-> 0, temp |-> s.temp,
                          resp_rate |-> 0, acc |-> s.acc, beat |-> beat_counter,
                          melodic |-> WristMelodic(mode, beat_counter, s.acc),
                          old_mode |-> current_mode]
               /\ emitted' = WristTriggers(mode, current_time_ms, ms, beat_counter,
                                           chord_idx, last_melody_idx, s)
               /\ full_mix_ms' = FullMixMs(full_mix_ms,
                                    WristTriggers(mode, current_time_ms, ms, beat_counter,
                                                  chord_idx, last_melody_idx, s))
               /\ last_melody_idx' = WristMelodyNext(mode, beat_counter, s.acc,
                                                     last_melody_idx)
               /\ current_time_ms' = current_time_ms + ms
               /\ beat_counter' = beat_counter + 1
               /\ chord_idx' = ChordIdxNext(chord_idx, beat_counter)
    /\ UNCHANGED <<variant, total_sec, rate, n_samples, n_feature, pc, emg_idx, emg_at>>
    /\ UNCHANGED callVars
    /\ UNCHANGED mixVars
    /\ UNCHANGED runVars
    /\ UNCHANGED songVars
    /\ UNCHANGED beatVars
    /\ UNCHANGED featVars

\* The while condition fails: return full_mix.
Finish ==
    /\ pc = "loop"
    /\ current_time_ms >= LoopLimit(total_sec)
    /\ pc' = "done"
    /\ UNCHANGED <<variant, total_sec, rate, n_samples, n_feature, current_time_ms,
                   beat_counter, chord_idx, last_melody_idx, current_mode, sec_idx,
                   track_at, emg_idx, emg_at, cur, emitted, full_mix_ms>>
    /\ UNCHANGED callVars
    /\ UNCHANGED mixVars
    /\ UNCHANGED runVars
    /\ UNCHANGED songVars
    /\ UNCHANGED beatVars
    /\ UNCHANGED featVars

\* The index at which the step at time t reads the tracks other than the tempo:
\* emg_norm[int((current_time_ms / 1000) * rate)] in beat_maker_ecg_emg.py,
\* eda_norm[sec_idx], emg_norm[sec_idx], resp_swell[sec_idx] in the chest
\* scheduler, min(sec_idx, len(track) - 1) in the wrist scheduler.
FeatureReadIdx(v, t) ==
    IF v = "ecg_emg" THEN RawIdx(t, rate)
    ELSE IF v = "chest" THEN SecIdx(t, rate, n_samples)
    ELSE FeatIdx(SecIdx(t, rate, n_samples))

\* A read past the end of a track: IndexError leaves the function, and with it
\* the mix made so far.
RaiseIndexError ==
    /\ pc = "loop"
    /\ current_time_ms < LoopLimit(total_sec)
    /\ n_samples > 0
    /\ n_feature > 0
    /\ FeatureReadIdx(variant, current_time_ms) >= n_feature
    /\ pc' = "raised"
    /\ UNCHANGED <<variant, total_sec, rate, n_samples, n_feature, current_time_ms,
                   beat_counter, chord_idx, last_melody_idx, current_mode, sec_idx,
                   track_at, emg_idx, emg_at, cur, emitted, full_mix_ms>>
    /\ UNCHANGED callVars
    /\ UNCHANGED mixVars
    /\ UNCHANGED runVars
    /\ UNCHANGED songVars
    /\ UNCHANGED beatVars
    /\ UNCHANGED featVars

\* A segment with an empty track.  Where a track other than the tempo is empty,
\* its normalisation takes the minimum of an empty array (emg_clean.min(),
\* eda.min()) and numpy raises ValueError before the loop; where the tempo track
\* is empty, the first step reads ecg_rate[min(0, len(ecg_rate) - 1)], index -1
\* of an empty array, an IndexError.  Either way the exception leaves the
\* function.
RaiseOnEmpty ==
    /\ pc = "loop"
    /\ beat_counter = 0
    /\ n_samples = 0 \/ n_feature = 0
    /\ pc' = "raised"
    /\ UNCHANGED <<variant, total_sec, rate, n_samples, n_feature, current_time_ms,
                   beat_counter, chord_idx, last_melody_idx, current_mode, sec_idx,
                   track_at, emg_idx, emg_at, cur, emitted, full_mix_ms>>
    /\ UNCHANGED callVars
    /\ UNCHANGED mixVars
    /\ UNCHANGED runVars
    /\ UNCHANGED songVars
    /\ UNCHANGED beatVars
    /\ UNCHANGED featVars

Next == EcgStep \/ ChestStep \/ WristStep \/ Finish \/ RaiseIndexError \/ RaiseOnEmpty

Spec == Init /\ [][Next]_vars

\* The scheduler loop is sequential code: it keeps taking steps.
FairSpec == Spec /\ WF_vars(Next)

\* ----------------------------------- the classifiers, called directly
ClassInit ==
    /\ call_fn \in {"determine_musical_mode", "determine_musical_mode_wrist"}
    /\ call_args \in
         IF call_fn = "determine_musical_mode"
         THEN [hr : ArgHr, eda : ArgEda, resp : ArgResp, emg : ArgEmg, acc : {0}]
         ELSE [hr : ArgHr, eda : ArgEda, resp : {0}, emg : {0}, acc : ArgAcc]
    /\ call_results = <<>>
    /\ NoMix
    /\ NoRun
    /\ NoSong
    /\ variant = "chest"
    /\ total_sec = SegSec
    /\ rate = 1
    /\ n_samples = SegSec
    /\ n_feature = SegSec
    /\ pc = "done"
    /\ current_time_ms = 0
    /\ beat_counter = 0
    /\ chord_idx = 0
    /\ last_melody_idx = 0
    /\ current_mode = "BASELINE"
    /\ sec_idx = 0
    /\ track_at = [hr |-> 0, eda |-> 0, swell |-> 0, temp |-> 0, rr |-> 0, acc |-> 0]
    /\ emg_idx = 0
    /\ emg_at = 0
    /\ cur = NoLocals
    /\ emitted = {}
    /\ full_mix_ms = 0
    /\ NoBeat
    /\ NoFeat

CallChest ==
    /\ call_fn = "determine_musical_mode"
    /\ Len(call_results) < MaxCalls
    /\ call_results' = Append(call_results,
            determine_musical_mode(call_args.hr, call_args.eda, call_args.resp,
                                   call_args.emg))
    /\ UNCHANGED <<call_fn, call_args>>
    /\ UNCHANGED schedVars
    /\ UNCHANGED mixVars
    /\ UNCHANGED runVars
    /\ UNCHANGED songVars
    /\ UNCHANGED beatVars
    /\ UNCHANGED featVars

CallWrist ==
    /\ call_fn = "determine_musical_mode_wrist"
    /\ Len(call_results) < MaxCalls
    /\ call_results' = Append(call_results,
            determine_musical_mode_wrist(call_args.hr, call_args.eda, call_args.acc))
    /\ UNCHANGED <<call_fn, call_args>>
    /\ UNCHANGED schedVars
    /\ UNCHANGED mixVars
    /\ UNCHANGED runVars
    /\ UNCHANGED songVars
    /\ UNCHANGED beatVars
    /\ UNCHANGED featVars

ClassNext == CallChest \/ CallWrist

ClassSpec == ClassInit /\ [][ClassNext]_vars

\* -------------------------------------------- the mixer, frame by frame
\* The largest and the smallest value of a sample.
SampleMax == (2 ^ (SampleBits - 1)) - 1
SampleMin == 0 - (2 ^ (SampleBits - 1))

\* Lengths in frames of the buffers, the samples of a tonal instrument's
\* buffer and those of a noise instrument's.
BufLens == {1, 2}
NoiseLens == {1}
ToneValues == {SampleMin + 1, SampleMax - 1}
NoiseValues == {0 - 1, 1}

ToneBuffers == UNION {[1..n -> ToneValues] : n \in BufLens}

\* WhiteNoise().to_audio_segment(duration=...): the samples come from the
\* random module, which nothing in the scripts seeds, so a buffer of n frames
\* is any sequence of n noise samples.
NoiseBuffers(n) == [1..n -> NoiseValues]

\* AudioSegment.silent(duration=...)
Silent(n) == [i \in 1..n |-> 0]

\* audioop.add: a sum outside the sample range is cut to the range.
Sat(x) == Clip(x, SampleMin, SampleMax)

\* The buffer written over the master instead of added to it.
OverlayReplacing(m, buf, pos) ==
    LET head == SubSeq(m, 1, Min(pos, Len(m)))
        seg1 == SubSeq(m, Min(pos, Len(m)) + 1, Len(m))
        seg2 == IF Len(buf) >= Len(seg1) THEN SubSeq(buf, 1, Len(seg1)) ELSE buf
        tail == SubSeq(seg1, Len(seg2) + 1, Len(seg1))
    IN head \o seg2 \o tail

\* The master lowered to half its level before the buffer is added.
OverlayDucking(m, buf, pos) ==
    LET half == [i \in 1..Len(m) |-> m[i] \div 2]
        head == SubSeq(half, 1, Min(pos, Len(m)))
        seg1 == SubSeq(half, Min(pos, Len(m)) + 1, Len(m))
        seg2 == IF Len(buf) >= Len(seg1) THEN SubSeq(buf, 1, Len(seg1)) ELSE buf
        mixed == [i \in 1..Len(seg2) |-> Sat(seg1[i] + seg2[i])]
        tail == SubSeq(seg1, Len(seg2) + 1, Len(seg1))
    IN head \o mixed \o tail

\* m.overlay(buf, position=pos), in frames: the master up to the position, the
\* buffer cut to what remains of the master and added to it sample by sample,
\* the rest of the master.
Overlay(m, buf, pos) ==
    LET head == SubSeq(m, 1, Min(pos, Len(m)))
        seg1 == SubSeq(m, Min(pos, Len(m)) + 1, Len(m))
        seg2 == IF Len(buf) >= Len(seg1) THEN SubSeq(buf, 1, Len(seg1)) ELSE buf
        mixed == [i \in 1..Len(seg2) |-> Sat(seg1[i] + seg2[i])]
        tail == SubSeq(seg1, Len(seg2) + 1, Len(seg1))
    IN head \o mixed \o tail

\* The frames an overlay ranges over.
FramesOf(pos, buf) == (pos + 1)..(pos + Len(buf))

\* s without its i-th element
Without(s, i) == SubSeq(s, 1, i - 1) \o SubSeq(s, i + 1, Len(s))

MixInit ==
    /\ NoCall
    /\ NoRun
    /\ NoSong
    /\ master_a = Silent(MasterFrames)
    /\ master_b = Silent(MasterFrames)
    /\ pending = <<>>
    /\ last_overlay = NoOverlay
    /\ n_trig = 0
    /\ covered = {}
    /\ overlapped = FALSE
    /\ reordered = FALSE
    /\ rerendered = FALSE
    /\ variant = "chest"
    /\ total_sec = SegSec
    /\ rate = 1
    /\ n_samples = SegSec
    /\ n_feature = SegSec
    /\ pc = "done"
    /\ current_time_ms = 0
    /\ beat_counter = 0
    /\ chord_idx = 0
    /\ last_melody_idx = 0
    /\ current_mode = "BASELINE"
    /\ sec_idx = 0
    /\ track_at = [hr |-> 0, eda |-> 0, swell |-> 0, temp |-> 0, rr |-> 0, acc |-> 0]
    /\ emg_idx = 0
    /\ emg_at = 0
    /\ cur = NoLocals
    /\ emitted = {}
    /\ full_mix_ms = 0
    /\ NoBeat
    /\ NoFeat

\* full_mix = full_mix.overlay(<instrument buffer>, position=...): an instrument
\* is rendered and its buffer overlaid on the master.
OverlayTrigger ==
    /\ n_trig < MaxTriggers
    /\ \E pos \in 0..MasterFrames, inst \in {"tone", "noise"} :
         \E buf \in IF inst = "tone" THEN ToneBuffers
                    ELSE UNION {NoiseBuffers(n) : n \in NoiseLens} :
            /\ master_a' = Overlay(master_a, buf, pos)
            /\ pending' = Append(pending, [inst |-> inst, pos |-> pos, buf |-> buf])
            /\ last_overlay' = [pos |-> pos, buf |-> buf, before |-> master_a]
            /\ n_trig' = n_trig + 1
            /\ covered' = covered \cup FramesOf(pos, buf)
            /\ overlapped' = (overlapped \/ FramesOf(pos, buf) \cap covered # {})
    /\ UNCHANGED <<master_b, reordered, rerendered>>
    /\ UNCHANGED schedVars
    /\ UNCHANGED callVars
    /\ UNCHANGED runVars
    /\ UNCHANGED songVars
    /\ UNCHANGED beatVars
    /\ UNCHANGED featVars

\* The same overlay made on the second master: a tonal buffer is the same
\* whenever it is rendered, a noise buffer is rendered anew.
ReplayOverlay ==
    /\ \E i \in 1..Len(pending) :
         \E buf \in IF pending[i].inst = "noise" THEN NoiseBuffers(Len(pending[i].buf))
                    ELSE {pending[i].buf} :
            /\ master_b' = Overlay(master_b, buf, pending[i].pos)
            /\ pending' = Without(pending, i)
            /\ reordered' = (reordered \/ i # 1)
            /\ rerendered' = (rerendered \/ buf # pending[i].buf)
    /\ UNCHANGED <<master_a, last_overlay, n_trig, covered, overlapped>>
    /\ UNCHANGED schedVars
    /\ UNCHANGED callVars
    /\ UNCHANGED runVars
    /\ UNCHANGED songVars
    /\ UNCHANGED beatVars
    /\ UNCHANGED featVars

MixNext == OverlayTrigger \/ ReplayOverlay

MixSpec == MixInit /\ [][MixNext]_vars

\* ------------------------------------------- main(): the segment loop
\* segments_to_generate / segments_to_process, in the order of the dict
Labels == <<"baseline", "stress", "fun", "meditation">>

Scripts == {"ecg_emg", "more_sensors"}

\* The devices whose channels a script reads from the recording.
Needed(sc) == IF sc = "ecg_emg" THEN {"chest"} ELSE {"chest", "wrist"}

\* The scheduler a script runs first on a segment.
FirstDevice(sc) == IF sc = "ecg_emg" THEN "ecg_emg" ELSE "chest"

\* SEGMENT_DURATION_SEC, the total_sec that main() passes.
MainSecs == {10}

\* The constant tracks of a segment cut from the recording.
RecordingSamples(v) == {x \in ConstantSamples(v) : x.hr \in {70, 200} /\ x.temp = 0}

\* The lengths of the slices other than the tempo's: the whole window, or less
\* where the recording's array of that channel ends early (only the ECG, the BVP
\* and the wrist EDA arrays are tested against the window).
FeatureLens(v, n) == IF v = "wrist" THEN {n, 0} ELSE {n, n \div 2}

\* The output name without the label.
OutputNameNoLabel(sc, k, v) ==
    [label |-> "-", device |-> IF sc = "ecg_emg" THEN "-" ELSE v]

\* f"{OUTPUT_PREFIX}_{label_name}.wav", f"{OUTPUT_PREFIX}_{label_name}_chest.wav",
\* f"{OUTPUT_PREFIX}_{label_name}_wrist.wav"
OutputName(sc, k, v) ==
    [label |-> Labels[k], device |-> IF sc = "ecg_emg" THEN "-" ELSE v]

\* What a finished run has rendered.
Rendered ==
    [beats |-> beat_counter, len_ms |-> full_mix_ms, mode |-> current_mode,
     chord |-> chord_idx]

\* One printed line: the segment, the device and what is said of it.
Line(k, v, kind) == [seg |-> k, device |-> v, kind |-> kind]

\* The state trackers carried over from the run before.
RunStartCarried ==
    [time |-> 0, beat |-> 0, chord |-> chord_idx, melody |-> last_melody_idx,
     mode |-> current_mode]

\* current_time_ms = 0; beat_counter = 0; chord_idx = 0; last_melody_idx = 0;
\* current_mode = 'BASELINE'
RunStart ==
    [time |-> 0, beat |-> 0, chord |-> 0, melody |-> 0, mode |-> "BASELINE"]

MainInit ==
    /\ NoCall
    /\ NoMix
    /\ NoSong
    /\ script \in Scripts
    /\ missing \in {"none", "chest", "wrist"}
    /\ main_pc = "load"
    /\ seg = 0
    /\ files = <<>>
    /\ report = <<>>
    /\ variant = FirstDevice(script)
    /\ total_sec = SegSec
    /\ rate = 1
    /\ n_samples = SegSec
    /\ n_feature = SegSec
    /\ pc = "idle"
    /\ current_time_ms = 0
    /\ beat_counter = 0
    /\ chord_idx = 0
    /\ last_melody_idx = 0
    /\ current_mode = "BASELINE"
    /\ sec_idx = 0
    /\ track_at = [hr |-> 0, eda |-> 0, swell |-> 0, temp |-> 0, rr |-> 0, acc |-> 0]
    /\ emg_idx = 0
    /\ emg_at = 0
    /\ cur = NoLocals
    /\ emitted = {}
    /\ full_mix_ms = 0
    /\ NoBeat
    /\ NoFeat

\* break written for continue: the loop is left at the first skipped label.
NextSegmentBreak(k) == NumSegments + 1

\* continue: on to the next label of the dict.
NextSegment(k) == k + 1

\* except KeyError: print(...); return
LoadFails ==
    /\ main_pc = "load"
    /\ missing \in Needed(script)
    /\ report' = Append(report, Line(0, "-", "missing_key"))
    /\ main_pc' = "returned"
    /\ UNCHANGED <<script, missing, seg, files>>
    /\ UNCHANGED schedVars
    /\ UNCHANGED callVars
    /\ UNCHANGED mixVars
    /\ UNCHANGED songVars
    /\ UNCHANGED beatVars
    /\ UNCHANGED featVars

\* Every channel the script reads is there: on to the for loop.
Load ==
    /\ main_pc = "load"
    /\ missing \notin Needed(script)
    /\ main_pc' = "for"
    /\ seg' = 1
    /\ UNCHANGED <<script, missing, files, report>>
    /\ UNCHANGED schedVars
    /\ UNCHANGED callVars
    /\ UNCHANGED mixVars
    /\ UNCHANGED songVars
    /\ UNCHANGED beatVars
    /\ UNCHANGED featVars

\* if len(indices) == 0: print(...); continue
\* if end_index > len(ecg_full): print(...); continue
SkipSegment ==
    /\ main_pc = "for"
    /\ seg <= NumSegments
    /\ \E why \in {"no_label", "not_enough"} :
         report' = Append(report, Line(seg, FirstDevice(script), why))
    /\ seg' = NextSegment(seg)
    /\ UNCHANGED <<script, missing, main_pc, files>>
    /\ UNCHANGED schedVars
    /\ UNCHANGED callVars
    /\ UNCHANGED mixVars
    /\ UNCHANGED songVars
    /\ UNCHANGED beatVars
    /\ UNCHANGED featVars

\* The label is there and the window fits: the segment is sliced.
EnterSegment ==
    /\ main_pc = "for"
    /\ seg <= NumSegments
    /\ main_pc' = "extract"
    /\ variant' = FirstDevice(script)
    /\ UNCHANGED <<script, missing, seg, files, report>>
    /\ UNCHANGED <<total_sec, rate, n_samples, n_feature, pc, current_time_ms,
                   beat_counter, chord_idx, last_melody_idx, current_mode, sec_idx,
                   track_at, emg_idx, emg_at, cur, emitted, full_mix_ms>>
    /\ UNCHANGED callVars
    /\ UNCHANGED mixVars
    /\ UNCHANGED songVars
    /\ UNCHANGED beatVars
    /\ UNCHANGED featVars

\* Where main() goes on after a render has ended, well or not: from the chest
\* render to the wrist's window test, else to the next label.
AfterRender ==
    IF variant = "chest"
    THEN /\ main_pc' = "wrist_check"
         /\ seg' = seg
    ELSE /\ main_pc' = "for"
         /\ seg' = seg + 1

\* The caught exception written to end the iteration: on to the next label.
RaisedSkipsSegment ==
    IF script = "ecg_emg"
    THEN /\ main_pc' = "crashed"
         /\ UNCHANGED <<seg, report>>
    ELSE /\ report' = Append(report, Line(seg, variant, "error"))
         /\ main_pc' = "for"
         /\ seg' = seg + 1

\* An exception that leaves a render: the multi-sensor main() catches it
\* (except Exception as e: print(...)), beat_maker_ecg_emg.py's has no try, so
\* the exception leaves main().
Raised ==
    IF script = "ecg_emg"
    THEN /\ main_pc' = "crashed"
         /\ UNCHANGED <<seg, report>>
    ELSE /\ report' = Append(report, Line(seg, variant, "error"))
         /\ AfterRender

\* nk.ecg_peaks / nk.ppg_peaks / nk.signal_rate raises on the segment.
ExtractRaises ==
    /\ main_pc = "extract"
    /\ Raised
    /\ UNCHANGED <<script, missing, files>>
    /\ UNCHANGED schedVars
    /\ UNCHANGED callVars
    /\ UNCHANGED mixVars
    /\ UNCHANGED songVars
    /\ UNCHANGED beatVars
    /\ UNCHANGED featVars

\* generate_song_structure(...) / generate_wrist_song_structure(...) is entered:
\* its arguments, its state trackers and its master.
BeginRun ==
    /\ main_pc = "extract"
    /\ main_pc' = "run"
    /\ total_sec' \in MainSecs
    /\ rate' \in Rates
    /\ n_samples' = total_sec' * rate'
    /\ n_feature' \in FeatureLens(variant, total_sec' * rate')
    /\ pc' = "loop"
    /\ current_time_ms' = RunStart.time
    /\ beat_counter' = RunStart.beat
    /\ chord_idx' = RunStart.chord
    /\ last_melody_idx' = RunStart.melody
    /\ current_mode' = RunStart.mode
    /\ sec_idx' = 0
    /\ track_at' \in RecordingSamples(variant)
    /\ emg_idx' = 0
    /\ emg_at' \in ConstantEmgSamples(variant)
    /\ cur' = NoLocals
    /\ emitted' = {}
    /\ full_mix_ms' = total_sec' * 1000
    /\ UNCHANGED <<variant, script, missing, seg, files, report>>
    /\ UNCHANGED callVars
    /\ UNCHANGED mixVars
    /\ UNCHANGED songVars
    /\ UNCHANGED beatVars
    /\ UNCHANGED featVars

\* final_song.export(output_filename, format="wav"); print(...)
Export ==
    /\ main_pc = "run"
    /\ pc = "done"
    /\ LET name == OutputName(script, seg, variant)
       IN files' = [f \in DOMAIN files \cup {name} |->
                      IF f = name THEN Rendered ELSE files[f]]
    /\ report' = Append(report, Line(seg, variant, "saved"))
    /\ pc' = "idle"
    /\ AfterRender
    /\ UNCHANGED <<script, missing>>
    /\ UNCHANGED <<variant, total_sec, rate, n_samples, n_feature, current_time_ms,
                   beat_counter, chord_idx, last_melody_idx, current_mode, sec_idx,
                   track_at, emg_idx, emg_at, cur, emitted, full_mix_ms>>
    /\ UNCHANGED callVars
    /\ UNCHANGED mixVars
    /\ UNCHANGED songVars
    /\ UNCHANGED beatVars
    /\ UNCHANGED featVars

\* The scheduler has raised.
RunRaises ==
    /\ main_pc = "run"
    /\ pc = "raised"
    /\ pc' = "idle"
    /\ Raised
    /\ UNCHANGED <<script, missing, files>>
    /\ UNCHANGED <<variant, total_sec, rate, n_samples, n_feature, current_time_ms,
                   beat_counter, chord_idx, last_melody_idx, current_mode, sec_idx,
                   track_at, emg_idx, emg_at, cur, emitted, full_mix_ms>>
    /\ UNCHANGED callVars
    /\ UNCHANGED mixVars
    /\ UNCHANGED songVars
    /\ UNCHANGED beatVars
    /\ UNCHANGED featVars

\* if wrist_bvp_end > len(wrist_bvp) or wrist_eda_end > len(wrist_eda):
\*     print(...); continue
WristShort ==
    /\ main_pc = "wrist_check"
    /\ report' = Append(report, Line(seg, "wrist", "not_enough"))
    /\ main_pc' = "for"
    /\ seg' = NextSegment(seg)
    /\ UNCHANGED <<script, missing, files>>
    /\ UNCHANGED <<variant, total_sec, rate, n_samples, n_feature, pc, current_time_ms,
                   beat_counter, chord_idx, last_melody_idx, current_mode, sec_idx,
                   track_at, emg_idx, emg_at, cur, emitted, full_mix_ms>>
    /\ UNCHANGED callVars
    /\ UNCHANGED mixVars
    /\ UNCHANGED songVars
    /\ UNCHANGED beatVars
    /\ UNCHANGED featVars

\* The wrist windows fit: the wrist render of the segment.
EnterWrist ==
    /\ main_pc = "wrist_check"
    /\ main_pc' = "extract"
    /\ variant' = "wrist"
    /\ UNCHANGED <<script, missing, seg, files, report>>
    /\ UNCHANGED <<total_sec, rate, n_samples, n_feature, pc, current_time_ms,
                   beat_counter, chord_idx, last_melody_idx, current_mode, sec_idx,
                   track_at, emg_idx, emg_at, cur, emitted, full_mix_ms>>
    /\ UNCHANGED callVars
    /\ UNCHANGED mixVars
    /\ UNCHANGED songVars
    /\ UNCHANGED beatVars
    /\ UNCHANGED featVars

\* The for loop has gone through every label: main() returns.
MainReturn ==
    /\ main_pc = "for"
    /\ seg > NumSegments
    /\ main_pc' = "returned"
    /\ UNCHANGED <<script, missing, seg, files, report>>
    /\ UNCHANGED schedVars
    /\ UNCHANGED callVars
    /\ UNCHANGED mixVars
    /\ UNCHANGED songVars
    /\ UNCHANGED beatVars
    /\ UNCHANGED featVars

MainNext ==
    \/ LoadFails \/ Load \/ SkipSegment \/ EnterSegment \/ ExtractRaises
    \/ BeginRun \/ EcgStep \/ ChestStep \/ WristStep \/ Finish \/ RaiseIndexError
    \/ RaiseOnEmpty \/ Export \/ RunRaises \/ WristShort \/ EnterWrist \/ MainReturn

MainSpec == MainInit /\ [][MainNext]_vars

\* --------------------------------- make_one_song.py: compose(), the end
\* 0.9, in ten-thousandths of full scale
PeakLevel == 9000
\* The factor of the conversion to 16 bits.
Int16Scale == 32767

\* Amplitudes of the mixed song, in thousandths of full scale (the chunks are
\* sums of five instruments at the volumes of the JSON file, with no limit).
AmpValues == {0 - 2500, 0 - 1000, 0 - 300, 0, 300, 1000, 2500}

\* a / b rounded towards zero (b > 0)
TruncDiv(a, b) == IF a >= 0 THEN a \div b ELSE 0 - ((0 - a) \div b)

Abs(x) == IF x < 0 THEN 0 - x ELSE x

\* np.max(np.abs(master_track))
MaxAbs(m) == CHOOSE a \in {Abs(m[i]) : i \in 1..Len(m)} :
                \A i \in 1..Len(m) : Abs(m[i]) <= a

\* The master left at the level it was mixed at.
NormalisedUnscaled(x, max_val) == x * 10

\* master_track / max_val * 0.9 if max_val > 0, else master_track; x and
\* max_val in thousandths, the result in ten-thousandths.
Normalised(x, max_val) ==
    IF max_val > 0 THEN TruncDiv(x * PeakLevel, max_val) ELSE x * 10

\* np.int16(x): a 16-bit two's complement integer, the higher bits dropped.
Int16(v) == ((v + 32768) % 65536) - 32768

\* np.int16(master_track * 32767): the float is cut to its integer part.
ToInt16(y) == Int16(TruncDiv(y * Int16Scale, 10000))

SongInit ==
    /\ NoCall
    /\ NoMix
    /\ NoRun
    /\ song_pc = "mixed"
    /\ mix_in \in [1..SongFrames -> AmpValues]
    /\ master_track = [i \in 1..SongFrames |-> mix_in[i] * 10]
    /\ wav = <<>>
    /\ variant = "chest"
    /\ total_sec = SegSec
    /\ rate = 1
    /\ n_samples = SegSec
    /\ n_feature = SegSec
    /\ pc = "done"
    /\ current_time_ms = 0
    /\ beat_counter = 0
    /\ chord_idx = 0
    /\ last_melody_idx = 0
    /\ current_mode = "BASELINE"
    /\ sec_idx = 0
    /\ track_at = [hr |-> 0, eda |-> 0, swell |-> 0, temp |-> 0, rr |-> 0, acc |-> 0]
    /\ emg_idx = 0
    /\ emg_at = 0
    /\ cur = NoLocals
    /\ emitted = {}
    /\ full_mix_ms = 0
    /\ NoBeat
    /\ NoFeat

\* max_val = np.max(np.abs(master_track))
\* if max_val > 0: master_track = master_track / max_val * 0.9
NormaliseSong ==
    /\ song_pc = "mixed"
    /\ master_track' = [i \in 1..Len(mix_in) |-> Normalised(mix_in[i], MaxAbs(mix_in))]
    /\ song_pc' = "normalised"
    /\ UNCHANGED <<mix_in, wav>>
    /\ UNCHANGED schedVars
    /\ UNCHANGED callVars
    /\ UNCHANGED mixVars
    /\ UNCHANGED runVars
    /\ UNCHANGED beatVars
    /\ UNCHANGED featVars

\* write(OUTPUT_FILE, SAMPLE_RATE, np.int16(master_track * 32767))
WriteSong ==
    /\ song_pc = "normalised"
    /\ wav' = [i \in 1..Len(master_track) |-> ToInt16(master_track[i])]
    /\ song_pc' = "written"
    /\ UNCHANGED <<mix_in, master_track>>
    /\ UNCHANGED schedVars
    /\ UNCHANGED callVars
    /\ UNCHANGED mixVars
    /\ UNCHANGED runVars
    /\ UNCHANGED beatVars
    /\ UNCHANGED featVars

SongNext == NormaliseSong \/ WriteSong

SongSpec == SongInit /\ [][SongNext]_vars

\* ------------------------------------------ beat_maker.py: create_beat()
\* The labels of the recording: 1 baseline, 2 stress, 3 amusement, 4 meditation
BeatLabelValues == {1, 2, 3, 4}

\* rate: DATA_SAMPLING_RATE, and one sample per second
BeatRates == {1, 700}

\* A set of indices as the ascending array that find_peaks returns.
RECURSIVE AscendingSeq(_)
AscendingSeq(S) ==
    IF S = {} THEN <<>>
    ELSE LET m == CHOOSE x \in S : \A y \in S : x <= y
         IN <<m>> \o AscendingSeq(S \ {m})

\* The event indices found in a signal of n samples.
IndexLists(n) == {AscendingSeq(S) : S \in SUBSET (0..(n - 1))}

\* def to_ms(index): return (index / rate) * 1000
to_ms(index, r) == (index * 1000 * TimeScale) \div r

\* samples['kick'] - 6 if label == 4, samples['kick'] otherwise: the gain in dB
KickGain(label) == IF label = 4 THEN 0 - 6 ELSE 0

\* The hi-hat on every EDA event.
PlaysHihatAlways(label) == TRUE

\* if label == 2 or label == 3
PlaysHihat(label) == label = 2 \/ label = 3

\* if label == 2
PlaysSnare(label) == label = 2

BeatInit ==
    /\ NoCall
    /\ NoMix
    /\ NoRun
    /\ NoSong
    /\ NoFeat
    /\ NoSched
    /\ beat_labels \in UNION {[1..n -> BeatLabelValues] : n \in 0..MaxBeatLen}
    /\ beat_rate \in BeatRates
    /\ kick_indices \in IndexLists(Len(beat_labels))
    /\ hihat_indices \in IndexLists(Len(beat_labels))
    /\ snare_indices \in IndexLists(Len(beat_labels))
    /\ beat_pc = "kick"
    /\ beat_i = 1
    /\ output_audio = <<>>
    /\ duration_ms = to_ms(Len(beat_labels), beat_rate)

\* for index in kick_indices: ...
KickIteration ==
    /\ beat_pc = "kick"
    /\ beat_i <= Len(kick_indices)
    /\ LET index == kick_indices[beat_i]
           label == beat_labels[index + 1]
           pos_ms == to_ms(index, beat_rate)
       IN output_audio' =
              Append(output_audio, [inst |-> "kick", index |-> index, pos |-> pos_ms,
                                    gain |-> KickGain(label)])
    /\ beat_i' = beat_i + 1
    /\ UNCHANGED <<beat_labels, beat_rate, kick_indices, hihat_indices, snare_indices,
                   beat_pc, duration_ms>>
    /\ UNCHANGED schedVars
    /\ UNCHANGED callVars
    /\ UNCHANGED mixVars
    /\ UNCHANGED runVars
    /\ UNCHANGED songVars
    /\ UNCHANGED featVars

\* for index in hihat_indices: ...
HihatIteration ==
    /\ beat_pc = "hihat"
    /\ beat_i <= Len(hihat_indices)
    /\ LET index == hihat_indices[beat_i]
           label == beat_labels[index + 1]
           pos_ms == to_ms(index, beat_rate)
       IN output_audio' =
              IF PlaysHihat(label)
              THEN Append(output_audio, [inst |-> "hihat", index |-> index, pos |-> pos_ms,
                                         gain |-> 0])
              ELSE output_audio
    /\ beat_i' = beat_i + 1
    /\ UNCHANGED <<beat_labels, beat_rate, kick_indices, hihat_indices, snare_indices,
                   beat_pc, duration_ms>>
    /\ UNCHANGED schedVars
    /\ UNCHANGED callVars
    /\ UNCHANGED mixVars
    /\ UNCHANGED runVars
    /\ UNCHANGED songVars
    /\ UNCHANGED featVars

\* for index in snare_indices: ...
SnareIteration ==
    /\ beat_pc = "snare"
    /\ beat_i <= Len(snare_indices)
    /\ LET index == snare_indices[beat_i]
           label == beat_labels[index + 1]
           pos_ms == to_ms(index, beat_rate)
       IN output_audio' =
              IF PlaysSnare(label)
              THEN Append(output_audio, [inst |-> "snare", index |-> index, pos |-> pos_ms,
                                         gain |-> 0])
              ELSE output_audio
    /\ beat_i' = beat_i + 1
    /\ UNCHANGED <<beat_labels, beat_rate, kick_indices, hihat_indices, snare_indices,
                   beat_pc, duration_ms>>
    /\ UNCHANGED schedVars
    /\ UNCHANGED callVars
    /\ UNCHANGED mixVars
    /\ UNCHANGED runVars
    /\ UNCHANGED songVars
    /\ UNCHANGED featVars

\* A for loop has gone through its list: on to the next loop, and after the
\* snare's to return output_audio.
BeatLoopEnds ==
    /\ beat_pc \in {"kick", "hihat", "snare"}
    /\ beat_i > Len(IF beat_pc = "kick" THEN kick_indices
                    ELSE IF beat_pc = "hihat" THEN hihat_indices
                    ELSE snare_indices)
    /\ beat_pc' = IF beat_pc = "kick" THEN "hihat"
                  ELSE IF beat_pc = "hihat" THEN "snare"
                  ELSE "returned"
    /\ beat_i' = 1
    /\ UNCHANGED <<beat_labels, beat_rate, kick_indices, hihat_indices, snare_indices,
                   output_audio, duration_ms>>
    /\ UNCHANGED schedVars
    /\ UNCHANGED callVars
    /\ UNCHANGED mixVars
    /\ UNCHANGED runVars
    /\ UNCHANGED songVars
    /\ UNCHANGED featVars

BeatNext == KickIteration \/ HihatIteration \/ SnareIteration \/ BeatLoopEnds

BeatSpec == BeatInit /\ [][BeatNext]_vars

\* ------------------- process_pkl.py: WESADProcessor._extract_features()
\* The label ids of a recording: np.bincount counts 0 .. max(window_labels)
LabelIds == 0..7

\* The label ids the recordings of the model hold.
FeatLabelValues == {0, 1, 2, 4}

\* How often label l occurs in the window w.
BinCount(w, l) == Cardinality({i \in 1..Len(w) : w[i] = l})

\* np.argmax(np.bincount(window_labels)): the first of the most frequent ids
MostCommonLabel(w) ==
    CHOOSE l \in LabelIds :
        \A m \in LabelIds :
            \/ BinCount(w, l) > BinCount(w, m)
            \/ BinCount(w, l) = BinCount(w, m) /\ l <= m

\* labels[window_slice], window_slice = slice(start_idx, start_idx + WINDOW_SAMPLES)
WindowLabels(ls, start) ==
    [i \in 1..(Min(start + WindowSamples, Len(ls)) - start) |-> ls[start + i]]

\* The stop of range(0, signal_length - self.WINDOW_SAMPLES, self.WINDOW_SAMPLES)
RangeStop(ls) == Len(ls) - WindowSamples

\* PhysiologicalFeature(condition=..., device_location=..., time_window_start_sec=...)
FeatureRecord(condition, device_location, start) ==
    [condition |-> condition, device_location |-> device_location, start |-> start]

FeatInit ==
    /\ NoCall
    /\ NoMix
    /\ NoRun
    /\ NoSong
    /\ NoBeat
    /\ NoSched
    /\ feat_labels \in UNION {[1..n -> FeatLabelValues] : n \in 0..MaxLabels}
    /\ start_idx = 0
    /\ feat_pc = "for"
    /\ examined = {}
    /\ features_to_create = <<>>

\* if most_common_label_id not in [1, 2, 3]: continue
SkipWindow ==
    /\ feat_pc = "for"
    /\ start_idx < RangeStop(feat_labels)
    /\ MostCommonLabel(WindowLabels(feat_labels, start_idx)) \notin {1, 2, 3}
    /\ examined' = examined \cup {start_idx}
    /\ start_idx' = start_idx + WindowSamples
    /\ UNCHANGED <<feat_labels, feat_pc, features_to_create>>
    /\ UNCHANGED schedVars
    /\ UNCHANGED callVars
    /\ UNCHANGED mixVars
    /\ UNCHANGED runVars
    /\ UNCHANGED songVars
    /\ UNCHANGED beatVars

\* for device_location in ['CHEST', 'WRIST']: features_to_create.append(...)
RecordWindow ==
    /\ feat_pc = "for"
    /\ start_idx < RangeStop(feat_labels)
    /\ LET most_common_label_id == MostCommonLabel(WindowLabels(feat_labels, start_idx))
       IN /\ most_common_label_id \in {1, 2, 3}
          /\ features_to_create' =
                 features_to_create \o
                     <<FeatureRecord(most_common_label_id, "CHEST", start_idx),
                       FeatureRecord(most_common_label_id, "WRIST", start_idx)>>
    /\ examined' = examined \cup {start_idx}
    /\ start_idx' = start_idx + WindowSamples
    /\ UNCHANGED <<feat_labels, feat_pc>>
    /\ UNCHANGED schedVars
    /\ UNCHANGED callVars
    /\ UNCHANGED mixVars
    /\ UNCHANGED runVars
    /\ UNCHANGED songVars
    /\ UNCHANGED beatVars

\* The range is exhausted: return features_to_create
FeatReturn ==
    /\ feat_pc = "for"
    /\ start_idx >= RangeStop(feat_labels)
    /\ feat_pc' = "returned"
    /\ UNCHANGED <<feat_labels, start_idx, examined, features_to_create>>
    /\ UNCHANGED schedVars
    /\ UNCHANGED callVars
    /\ UNCHANGED mixVars
    /\ UNCHANGED runVars
    /\ UNCHANGED songVars
    /\ UNCHANGED beatVars

FeatNext == SkipWindow \/ RecordWindow \/ FeatReturn

FeatSpec == FeatInit /\ [][FeatNext]_vars

\* ======================================================== properties
StepTaken == beat_counter' = beat_counter + 1
ModeBased == variant \in {"chest", "wrist"}
Stepped == cur.beat >= 0

\* The classifier applied to the snapshot of the last step.
ClassifierOutput ==
    IF variant = "chest"
    THEN determine_musical_mode(cur.bpm, cur.eda, cur.resp_rate, cur.emg)
    ELSE determine_musical_mode_wrist(cur.bpm, cur.eda, cur.acc)

\* C1: in the mode-based schedulers a step whose beat counter is a multiple of 4
\* sets the mode to the classifier's output on that step's snapshot, and every
\* other step leaves the mode as it is.  So at every step the mode is the
\* classifier's output on the snapshot of the first beat of the current bar.
C1_ModeSetOnlyAtBarStart ==
    [][(StepTaken /\ ModeBased) =>
         IF beat_counter % 4 = 0
         THEN current_mode' = ClassifierOutput'
         ELSE current_mode' = current_mode]_vars

\* A mid-bar step whose snapshot would classify differently, the mode kept.
C1_Witness ==
    /\ ModeBased
    /\ Stepped
    /\ cur.beat % 4 # 0
    /\ ClassifierOutput # current_mode
    /\ current_mode # "BASELINE"

ChestMeditation(a) == a.hr < 75 /\ a.resp < 15
ChestStress(a) == a.hr > 85 /\ a.eda > 40
ChestAmusement(a) == a.hr > 75 /\ a.emg > 20
WristMeditation(a) == a.hr < 75 /\ a.acc < 20
WristStress(a) == a.hr > 85 /\ a.eda > 40
WristAmusement(a) == a.acc > 30

\* The first of MEDITATION, STRESS, AMUSEMENT whose condition holds, else BASELINE.
FirstInOrder(med, stress, amu, r) ==
    /\ med => r = "MEDITATION"
    /\ (~med /\ stress) => r = "STRESS"
    /\ (~med /\ ~stress /\ amu) => r = "AMUSEMENT"
    /\ (~med /\ ~stress /\ ~amu) => r = "BASELINE"

\* C2: both classifiers return the first mode, in the order MEDITATION, STRESS,
\* AMUSEMENT, BASELINE, whose condition holds; where the STRESS and the AMUSEMENT
\* conditions hold together the result is STRESS.
C2_PriorityOrder ==
    \A i \in 1..Len(call_results) :
        IF call_fn = "determine_musical_mode"
        THEN FirstInOrder(ChestMeditation(call_args), ChestStress(call_args),
                          ChestAmusement(call_args), call_results[i])
        ELSE FirstInOrder(WristMeditation(call_args), WristStress(call_args),
                          WristAmusement(call_args), call_results[i])

\* A chest call on which the STRESS and the AMUSEMENT conditions both hold.
C2_Witness ==
    /\ call_fn = "determine_musical_mode"
    /\ Len(call_results) >= 1
    /\ ChestStress(call_args)
    /\ ChestAmusement(call_args)
    /\ call_results[1] = "STRESS"

\* C3: every call of a classifier returns one of the four modes, and every
\* further call on the same arguments returns what the first call returned.
C3_OneModeOfTheClosedSet ==
    \A i \in 1..Len(call_results) :
        /\ call_results[i] \in Modes
        /\ call_results[i] = call_results[1]

\* Two wrist calls on arguments that match none of the three checks.
C3_Witness ==
    /\ call_fn = "determine_musical_mode_wrist"
    /\ Len(call_results) >= 2
    /\ ~WristMeditation(call_args)
    /\ ~WristStress(call_args)
    /\ ~WristAmusement(call_args)


InScale(i) == i \in 0..(SCALE_LEN - 1)

C5_CursorMovesByAtMostOne ==
    [][/\ last_melody_idx' - last_melody_idx \in {0 - 1, 0, 1}
       /\ ~(StepTaken /\ cur'.melodic) => last_melody_idx' = last_melody_idx]_vars

\* A step without a melodic event after two upward events.
C5_Witness ==
    /\ Stepped
    /\ ~cur.melodic
    /\ last_melody_idx = 2

MinBpmOf(v) == IF v = "ecg_emg" THEN MinBpmEcg ELSE MinBpm
MaxBpmOf(v) == IF v = "ecg_emg" THEN MaxBpmEcg ELSE MaxBpm

\* C6: the tempo of every step is within [min_bpm, max_bpm] of its scheduler and
\* the beat duration is finite, positive and within
\* [60000 / max_bpm, 60000 / min_bpm] ms.
C6_BeatDurationClamped ==
    Stepped =>
        /\ cur.bpm >= MinBpmOf(variant)
        /\ cur.bpm <= MaxBpmOf(variant)
        /\ cur.ms_per_beat # Inf
        /\ cur.ms_per_beat > 0
        /\ cur.ms_per_beat >= (60000 * TimeScale) \div MaxBpmOf(variant)
        /\ cur.ms_per_beat <= (60000 * TimeScale) \div MinBpmOf(variant)

\* A step on a tempo sample of zero.
C6_Witness ==
    /\ Stepped
    /\ track_at.hr = 0
    /\ cur.bpm = MinBpmOf(variant)

\* ceil((segment_duration_ms - 2000) * max_bpm / 60000)
MaxSteps ==
    (((total_sec * 1000 - LookaheadMs) * MaxBpmOf(variant)) + 59999) \div 60000

C8_NoEventTruncated ==
    \A e \in emitted : e.off + e.dur <= SegmentMs(total_sec)

\* C9: every overlay of a step starts at the step's position, half a beat after
\* it or a quarter of a beat (in whole ms) after it, hence within
\* [position, position + beat duration) and before the segment's end.
C9_OffsetsWithinTheBeat ==
    Stepped =>
        \A e \in emitted :
            /\ \/ e.off = cur.pos
               \/ e.off = cur.pos + (cur.ms_per_beat \div 2)
               \/ e.off = cur.pos + IntMsTimes(cur.ms_per_beat, 25, 100)
            /\ e.off >= cur.pos
            /\ e.off < cur.pos + cur.ms_per_beat
            /\ e.off < SegmentMs(total_sec)

\* A step with an overlay at half a beat and one at a quarter of a beat.
C9_Witness ==
    /\ Stepped
    /\ cur.pos > 0
    /\ \E e \in emitted : e.inst = "hihat" /\ e.off = cur.pos + (cur.ms_per_beat \div 2)
    /\ \E e \in emitted : e.inst = "movement_perc" /\ e.off > cur.pos

\* An overlay of instrument inst that starts at from and ends at to.
Covers(es, inst, from, to) ==
    \E e \in es : e.inst = inst /\ e.off = from /\ e.off + e.dur = to

\* C10: the first position is 0 and every step of a mode-based scheduler
\* overlays a drone (chest: and a breathing pad) that starts at the step's
\* position and ends at the next step's position.
C10_TexturesEveryStep ==
    /\ current_time_ms = 0
    /\ [][(StepTaken /\ ModeBased) =>
            /\ Covers(emitted', "drone", current_time_ms, current_time_ms')
            /\ variant = "chest" =>
                 Covers(emitted', "breathing_pad", current_time_ms, current_time_ms')]_vars

\* A MEDITATION step, later than the first, that overlays nothing but the drone.
C10_Witness ==
    /\ Stepped
    /\ current_mode = "MEDITATION"
    /\ cur.pos > 0
    /\ Cardinality(emitted) = 1
    /\ Covers(emitted, "drone", cur.pos, current_time_ms)

HarmonicInsts == {"pad_chord", "breathing_pad", "guitar"}

\* The progression a harmonic overlay of the last step takes its chord from.
ProgressionOf(e) ==
    IF e.inst = "pad_chord" THEN Progression(cur.bpm > ChorusBpm) ELSE BASE_PROG

\* C11: the chord index has advanced once for every bar begun (ECG/EMG
\* scheduler) or completed (multi-sensor schedulers), and every pad, breathing
\* pad and guitar chord overlaid in bar k (beats 4k .. 4k+3) holds the chord
\* progression[k mod 4] of its progression.
C11_ChordOfTheBar ==
    /\ chord_idx = IF variant = "ecg_emg" THEN (beat_counter + 3) \div 4
                   ELSE beat_counter \div 4
    /\ Stepped =>
         \A e \in emitted :
             e.inst \in HarmonicInsts =>
                 e.chord = ProgressionOf(e)[((cur.beat \div 4) % 4) + 1]

\* The first beat of the fifth bar: the progression has wrapped to its first
\* chord, in a chest run and in an ECG/EMG run.
C11_Witness ==
    /\ cur.beat = 16
    /\ \/ variant = "chest" /\ \E e \in emitted : e.inst = "breathing_pad" /\ e.chord = "C"
       \/ variant = "ecg_emg" /\ \E e \in emitted : e.inst = "pad_chord" /\ e.chord = "F"

\* One of the overlays es is of instrument inst.
Plays(es, inst) == \E e \in es : e.inst = inst

\* A secondary feature at 0: read as 0, or as nan where the scheduler's
\* normalisation has divided a constant channel by zero.
Quiet(x) == x = 0 \/ x = NaN

\* C12: in a chest run of at most 8000 ms, a step in BASELINE on a snapshot with
\* a tempo of 70 bpm and EDA, EMG and respiration swell at 0 stays in BASELINE,
\* overlays a kick exactly when the beat counter mod 4 is 0, a snare exactly
\* when it is 2 and no piano note, and leaves the master total_sec * 1000 ms
\* long.  The mode is BASELINE at the start, so it is BASELINE throughout a
\* segment of such snapshots.
C12_BaselineScenario ==
    [][(/\ StepTaken
        /\ variant = "chest"
        /\ total_sec * 1000 <= 8000
        /\ current_mode = "BASELINE"
        /\ cur'.bpm = 70
        /\ Quiet(cur'.eda) /\ Quiet(cur'.emg) /\ Quiet(cur'.swell))
       => /\ current_mode' = "BASELINE"
          /\ Plays(emitted', "kick") <=> beat_counter % 4 = 0
          /\ Plays(emitted', "snare") <=> beat_counter % 4 = 2
          /\ ~Plays(emitted', "piano")
          /\ ~cur'.melodic
          /\ full_mix_ms' = total_sec * 1000]_vars

\* The 8000 ms segment rendered to its end on constant tracks, the tempo at 70.
C12_Witness ==
    /\ variant = "chest"
    /\ total_sec * 1000 = 8000
    /\ n_feature = total_sec * rate
    /\ pc = "done"
    /\ track_at.hr = 70
    /\ Quiet(track_at.eda) /\ Quiet(emg_at) /\ Quiet(track_at.swell)
    /\ track_at.temp = 0
    /\ current_mode = "BASELINE"
    /\ beat_counter = 7
    /\ full_mix_ms = 8000

\* C13: a step of the chest scheduler on a snapshot with a tempo of 95 bpm and
\* an EDA of 0.5 sets the mode to STRESS if its beat counter is a multiple of 4,
\* whatever the respiration rate, and then overlays at its position the guitar
\* power chord of the bar's chord, four beats long, with intensity 0.5; a step
\* within a bar keeps the mode it found.
C13_StressScenario ==
    [][(/\ StepTaken
        /\ variant = "chest"
        /\ cur'.bpm = 95
        /\ cur'.eda = 50)
       => IF beat_counter % 4 = 0
          THEN /\ current_mode' = "STRESS"
               /\ \E e \in emitted' :
                    /\ e.inst = "guitar"
                    /\ e.off = current_time_ms
                    /\ e.dur = 4 * cur'.ms_per_beat
                    /\ e.chord = BASE_PROG[((beat_counter \div 4) % 4) + 1]
                    /\ e.level = 50
          ELSE current_mode' = current_mode]_vars

\* The first step of a run whose EDA is 0.5 from the start: BASELINE left for
\* STRESS, the power chord on C.
C13_Witness ==
    /\ variant = "chest"
    /\ cur.beat = 0
    /\ cur.bpm = 95
    /\ cur.eda = 50
    /\ cur.old_mode = "BASELINE"
    /\ current_mode = "STRESS"
    /\ \E e \in emitted : e.inst = "guitar" /\ e.chord = "C" /\ e.level = 50 /\ e.off = 0

\* C14: the master is total_sec * 1000 ms long from its allocation on and after
\* the overlays of every step, wherever they start and however long they are.
C14_MasterLengthFixed ==
    /\ full_mix_ms = total_sec * 1000
    /\ [][full_mix_ms' = full_mix_ms]_vars

\* A step one overlay of which reaches past the end of the master.
C14_Witness ==
    /\ Stepped
    /\ \E e \in emitted : e.off < Ms(full_mix_ms) /\ e.off + e.dur > Ms(full_mix_ms)
    /\ full_mix_ms = total_sec * 1000

\* The sample that the last overlay on master_a brought to frame i.
Added(i) ==
    IF i \in FramesOf(last_overlay.pos, last_overlay.buf)
    THEN last_overlay.buf[i - last_overlay.pos]
    ELSE 0

\* C15 as claimed: after an overlay every sample of the master is its previous
\* value plus the buffer's sample at that frame (plus nothing outside the
\* buffer's range).
C15_OverlayAddsExactly ==
    n_trig > 0 =>
        \A i \in 1..Len(master_a) : master_a[i] = last_overlay.before[i] + Added(i)

\* C15 as amended: after an overlay the master has the length it had, every
\* sample within the buffer's range is its previous value plus the buffer's
\* sample, cut to the sample range where the sum leaves it, and every other
\* sample is unchanged; so an overlay over an earlier one adds to it and never
\* replaces it.
C15_OverlayAddsWithinSampleRange ==
    n_trig > 0 =>
        /\ Len(master_a) = Len(last_overlay.before)
        /\ \A i \in 1..Len(master_a) :
             master_a[i] = Sat(last_overlay.before[i] + Added(i))

\* An overlay over an earlier one: a frame holds the sum of the two samples.
C15_Witness ==
    /\ n_trig = 2
    /\ overlapped
    /\ \E i \in 1..Len(master_a) :
         /\ last_overlay.before[i] # 0
         /\ Added(i) # 0
         /\ master_a[i] = last_overlay.before[i] + Added(i)
         /\ master_a[i] # Added(i)

\* The replay has overlaid every buffer that master_a has taken.
Replayed == n_trig > 0 /\ pending = <<>>

\* C16: overlays whose ranges of frames are disjoint, made with the same
\* buffers on two silent masters, give the same master in whatever order the
\* second master takes them.
C16_OrderIndependentWhenDisjoint ==
    (Replayed /\ ~overlapped /\ ~rerendered) => master_b = master_a

\* Two disjoint overlays, both within the master, replayed the later one first.
C16_Witness ==
    /\ Replayed
    /\ n_trig = 2
    /\ reordered
    /\ ~overlapped
    /\ ~rerendered
    /\ Cardinality({i \in 1..Len(master_a) : master_a[i] # 0}) >= 2
    /\ master_b = master_a

\* C17 as claimed: the same list of triggers rendered and overlaid again, in the
\* same order, on a fresh silent master gives the same master.
C17_ReplayGivesTheSameMaster ==
    (Replayed /\ ~reordered) => master_b = master_a

\* C18 as claimed: no normalisation divides by zero, so every normalised value
\* a step reads is a number.
C18_NormalisedValuesDefined ==
    Stepped =>
        /\ cur.eda # NaN
        /\ cur.emg # NaN
        /\ cur.swell # NaN
        /\ cur.acc # NaN

Unit(x) == x \in 0..100

\* C19 as claimed: every intensity of a step's snapshot lies in [0, 1] and its
\* tempo in [min_bpm, max_bpm].
C19_SnapshotInRange ==
    Stepped =>
        /\ Unit(cur.eda) /\ Unit(cur.emg) /\ Unit(cur.acc)
        /\ Unit(cur.swell) /\ Unit(cur.temp)
        /\ cur.bpm >= MinBpmOf(variant)
        /\ cur.bpm <= MaxBpmOf(variant)

\* C20 as claimed: no step reads a track of non-zero length past its end.
C20_NoReadOutOfRange ==
    (n_samples > 0 /\ n_feature > 0) => pc # "raised"

\* The intensity that drives the melody of the last step: the EMG in the
\* ECG/EMG and the chest scheduler, the ACC in the wrist scheduler.
DrivingIntensity(c) == IF variant = "wrist" THEN c.acc ELSE c.emg

\* C27 as claimed: a step with a melodic event moves the melody cursor by
\* exactly one scale index, up or down, and never leaves it where it was.
C27_MelodicEventMovesByOne ==
    [][(StepTaken /\ cur'.melodic) =>
          \/ last_melody_idx' = last_melody_idx + 1
          \/ last_melody_idx' = last_melody_idx - 1]_vars

\* The threshold above which a melodic event steps up: 0.5 in the ECG/EMG
\* scheduler, 0.4 in AMUSEMENT; in MEDITATION the threshold of the note itself
\* (0.1), since every MEDITATION note steps up.
DirectionThreshold(v, mode) ==
    IF v = "ecg_emg" THEN 50
    ELSE IF mode = "AMUSEMENT" THEN 40
    ELSE 10

\* C28 as claimed: a melodic event whose driving intensity is above the
\* threshold of its mode moves the cursor up, and one whose intensity is at or
\* below it moves the cursor down.
C28_DirectionFollowsIntensity ==
    [][(StepTaken /\ cur'.melodic) =>
          IF DrivingIntensity(cur') > DirectionThreshold(variant, current_mode')
          THEN last_melody_idx' > last_melody_idx
          ELSE last_melody_idx' < last_melody_idx]_vars

\* An overlay of the last step: instrument inst at position off.
DrumAt(inst, off) == \E e \in emitted : e.inst = inst /\ e.off = off

\* The last step's position plus half a beat.
HalfPos == HalfBeat(cur.pos, cur.ms_per_beat)

\* C30: in the multi-sensor schedulers the kick, snare and hi-hat overlays of a
\* step are a function of the active mode and the beat counter mod 4.  BASELINE:
\* kick at residue 0, snare at residue 2, a hi-hat on every beat.  STRESS: kick
\* and a hi-hat on the beat and one half a beat later on every beat, snare at
\* residues 1 and 3.  AMUSEMENT: kick at residues 0 and 2, snare at residues 1
\* and 3, a hi-hat half a beat after every beat.  MEDITATION: none of the three.
C30_DrumPatternOfTheMode ==
    (Stepped /\ ModeBased) =>
        LET r == cur.beat % 4
            m == current_mode
        IN /\ \A e \in emitted :
                /\ e.inst \in {"kick", "snare"} => e.off = cur.pos
                /\ e.inst = "hihat" => e.off \in {cur.pos, HalfPos}
           /\ DrumAt("kick", cur.pos) <=>
                \/ m = "BASELINE" /\ r = 0
                \/ m = "STRESS"
                \/ m = "AMUSEMENT" /\ r \in {0, 2}
           /\ DrumAt("snare", cur.pos) <=>
                \/ m = "BASELINE" /\ r = 2
                \/ m \in {"STRESS", "AMUSEMENT"} /\ r \in {1, 3}
           /\ DrumAt("hihat", cur.pos) <=> m \in {"BASELINE", "STRESS"}
           /\ DrumAt("hihat", HalfPos) <=> m \in {"STRESS", "AMUSEMENT"}

\* A STRESS step at residue 3 with its snare, or an AMUSEMENT step at residue 2
\* with its kick.
C30_Witness ==
    /\ Stepped
    /\ ModeBased
    /\ \/ current_mode = "STRESS" /\ cur.beat % 4 = 3 /\ DrumAt("snare", cur.pos)
       \/ current_mode = "AMUSEMENT" /\ cur.beat % 4 = 2 /\ DrumAt("kick", cur.pos)

\* C26 as claimed: a run on an empty track is turned away before the loop and
\* never ends in an exception raised by the scheduler.
C26_EmptyTrackNeverRaises ==
    (n_samples = 0 \/ n_feature = 0) => pc # "raised"

\* The lines that report a skipped segment.
SkipLines == {i \in 1..Len(report) : report[i].kind \in {"no_label", "not_enough"}}

\* A file of label k has been exported.
ExportedFor(k) == \E f \in DOMAIN files : f.label = Labels[k]

\* This step skips a segment.
SkipStep ==
    /\ Len(report') = Len(report) + 1
    /\ report'[Len(report')].kind \in {"no_label", "not_enough"}

\* C21 as claimed: no file is exported for a segment that was skipped for want
\* of its label or of samples.
C21_NothingExportedForASkippedSegment ==
    \A i \in SkipLines : ~ExportedFor(report[i].seg)

\* C21 as amended: a step that skips a segment for want of its label or of
\* samples prints a warning, exports nothing and goes on to the next label; a
\* main() that returns after loading has gone through every label; no file of
\* the skipped render exists, and where the label or the first window was
\* wanting, no file of the segment at all.
C21_SkipExportsNothingAndContinues ==
    /\ [][SkipStep =>
            /\ files' = files
            /\ seg' = seg + 1
            /\ main_pc' = "for"]_vars
    /\ [](\A i \in SkipLines :
            /\ [label |-> Labels[report[i].seg],
                device |-> IF script = "ecg_emg" THEN "-" ELSE report[i].device]
                 \notin DOMAIN files
            /\ report[i].device = FirstDevice(script) => ~ExportedFor(report[i].seg))
    /\ []((main_pc = "returned" /\ missing \notin Needed(script)) =>
            \A k \in 1..NumSegments : \E i \in 1..Len(report) : report[i].seg = k)

\* The first label skipped, the second rendered and exported.
C21_Witness ==
    /\ \E i \in SkipLines : report[i].seg = 1
    /\ ~ExportedFor(1)
    /\ ExportedFor(2)
    /\ main_pc = "returned"

\* The channels the render of device v reads.
ChannelsOf(v) == IF v = "wrist" THEN "wrist" ELSE "chest"

\* The renders a script makes of a segment.
DevicesOf(sc) == IF sc = "ecg_emg" THEN {"ecg_emg"} ELSE {"chest", "wrist"}

\* C22 as claimed: when main() has returned from a recording that lacks the
\* channels of one device, every segment's render that reads no channel of that
\* device has been taken up (rendered, or reported for its own failure).
C22_MissingChannelSkipsOnlyItsSegments ==
    (main_pc = "returned" /\ missing \in Needed(script)) =>
        \A k \in 1..NumSegments : \A v \in DevicesOf(script) :
            ChannelsOf(v) # missing =>
                \E i \in 1..Len(report) : report[i].seg = k /\ report[i].device = v

\* C23 as claimed: no exception raised by the feature extraction or by the
\* scheduler of a segment leaves main().
C23_RaiseNeverEndsTheRun == main_pc # "crashed"

\* C24: no step of main(), whether it renders, exports, skips, catches an
\* exception or is left by one, removes or changes a file exported before.
C24_EarlierFilesUntouched ==
    [][\A f \in DOMAIN files : f \in DOMAIN files' /\ files'[f] = files[f]]_vars

\* The render of the second label has failed, caught or not, and the file of
\* the first label is there.
C24_Witness ==
    /\ ExportedFor(1)
    /\ seg = 2
    /\ \/ main_pc = "crashed"
       \/ \E i \in 1..Len(report) : report[i].seg = 2 /\ report[i].kind = "error"

\* C25: every run of a scheduler starts at position 0, beat 0, chord index 0,
\* melody cursor 0, in BASELINE, with nothing overlaid on a silent master of
\* total_sec * 1000 ms, whatever the run before it has left.
C25_RunStartsFresh ==
    [][(pc # "loop" /\ pc' = "loop") =>
          /\ current_time_ms' = 0
          /\ beat_counter' = 0
          /\ chord_idx' = 0
          /\ last_melody_idx' = 0
          /\ current_mode' = "BASELINE"
          /\ emitted' = {}
          /\ full_mix_ms' = total_sec' * 1000]_vars

\* The wrist run of a segment at its start, after a chest run that has ended
\* past its first bar.
C25_Witness ==
    /\ variant = "wrist"
    /\ pc = "loop"
    /\ beat_counter = 0
    /\ chord_idx = 0
    /\ current_mode = "BASELINE"
    /\ \E f \in DOMAIN files :
         /\ f.label = Labels[seg]
         /\ f.device = "chest"
         /\ files[f].beats > 4
         /\ files[f].chord > 0

\* The song is silent as mixed.
SilentSong == \A i \in 1..Len(mix_in) : mix_in[i] = 0

\* C29: after the normalisation the peak of the master is at most 0.9 of full
\* scale, and a silent master is what it was; every sample written is the
\* integer part of the master's sample times 32767, with no bit lost to the 16
\* bits, and lies within [-32767, 32767].
C29_FinalisedWithinInt16 ==
    /\ song_pc \in {"normalised", "written"} =>
         /\ \A i \in 1..Len(master_track) : Abs(master_track[i]) <= PeakLevel
         /\ SilentSong => \A i \in 1..Len(master_track) : master_track[i] = 0
    /\ song_pc = "written" =>
         \A i \in 1..Len(wav) :
             /\ wav[i] = TruncDiv(master_track[i] * Int16Scale, 10000)
             /\ wav[i] >= 0 - 32767
             /\ wav[i] <= 32767
             /\ SilentSong => wav[i] = 0

\* A song mixed at 2.5 times full scale, written with its peak at 0.9 of the
\* 16-bit range.
C29_Witness ==
    /\ song_pc = "written"
    /\ \E i \in 1..Len(mix_in) :
         /\ Abs(mix_in[i]) = 2500
         /\ Abs(wav[i]) = 29490
    /\ \E i \in 1..Len(mix_in) : mix_in[i] = 0 - 300 /\ wav[i] < 0

\* The melodic rule of a step: the mode, the beat counter and the intensity
\* that let a note through.
MelodicGate(v, mode, beat, x) ==
    IF v = "ecg_emg" THEN x > 20
    ELSE \/ mode = "MEDITATION" /\ beat % 2 = 0 /\ x > 10
         \/ mode = "AMUSEMENT" /\ x > 15

\* C31: a step overlays a piano note exactly when the melodic rule of its mode
\* lets it through (never in BASELINE or STRESS; in MEDITATION on an even beat
\* with intensity > 0.1; in AMUSEMENT with intensity > 0.15; in the ECG/EMG
\* scheduler with EMG > 0.2), and the melody cursor is left as it was by every
\* step without a note and by the end of the loop.
C31_CursorMovesOnlyWithAGatedNote ==
    [][/\ StepTaken =>
            /\ Plays(emitted', "piano") <=>
                 MelodicGate(variant, current_mode', beat_counter, DrivingIntensity(cur'))
            /\ ~Plays(emitted', "piano") => last_melody_idx' = last_melody_idx
       /\ ~StepTaken => last_melody_idx' = last_melody_idx]_vars

\* An AMUSEMENT step below the threshold of its note, the cursor where an
\* earlier note has left it.
C31_Witness ==
    /\ Stepped
    /\ current_mode = "AMUSEMENT"
    /\ DrivingIntensity(cur) <= 15
    /\ ~Plays(emitted, "piano")
    /\ last_melody_idx # 0

\* C32 as claimed: in the ECG/EMG scheduler a melodic event moves the cursor up
\* one scale step (held at the top of the scale) when the EMG of the beat is
\* above 0.6, and down one step (held at the bottom) otherwise.
C32_UpAboveSixTenths ==
    [][(StepTaken /\ variant = "ecg_emg" /\ cur'.melodic) =>
          last_melody_idx' =
              Clip(last_melody_idx + (IF cur'.emg > 60 THEN 1 ELSE 0 - 1),
                   0, SCALE_LEN - 1)]_vars

\* C35: while the chest scheduler's sample index is at most 5 * rate the
\* respiration rate of a step is the default 15 and the mode is never
\* MEDITATION, at a bar boundary or within the bar.
C35_NoMeditationInTheFirstFiveSeconds ==
    (variant = "chest" /\ Stepped /\ sec_idx <= RespWindowSec * rate) =>
        /\ cur.resp_rate = DefaultRespRate
        /\ current_mode # "MEDITATION"

\* A bar boundary in the first five seconds on a tempo below 75 and a
\* respiration signal below 15 breaths per minute.
C35_Witness ==
    /\ variant = "chest"
    /\ cur.beat = 4
    /\ sec_idx <= RespWindowSec * rate
    /\ cur.bpm < 75
    /\ track_at.rr < 15
    /\ track_at.rr > 0
    /\ current_mode = "BASELINE"

\* C36: on no arguments of the chest classifier does the MEDITATION condition
\* hold together with the STRESS or the AMUSEMENT condition, and at a heart
\* rate of 75 the classifier returns BASELINE.
C36_MeditationExcludesAndBaselineAt75 ==
    (call_fn = "determine_musical_mode") =>
        /\ ChestMeditation(call_args) =>
             ~ChestStress(call_args) /\ ~ChestAmusement(call_args)
        /\ \A i \in 1..Len(call_results) :
             call_args.hr = 75 => call_results[i] = "BASELINE"

\* A call at 75 bpm with EDA and EMG above their thresholds and a respiration
\* rate below 15.
C36_Witness ==
    /\ call_fn = "determine_musical_mode"
    /\ Len(call_results) >= 1
    /\ call_args.hr = 75
    /\ call_args.eda > 40
    /\ call_args.emg > 20
    /\ call_args.resp < 15
    /\ call_results[1] = "BASELINE"

\* C34 as claimed: every slice handed to a scheduler has the length of the
\* window, the tempo's slice and the slices of the other channels alike.
C34_EverySliceHasTheWindowLength ==
    (main_pc = "run") =>
        /\ n_samples = total_sec * rate
        /\ n_feature = total_sec * rate

\* This step catches an exception of the chest render.
ChestFailureCaught ==
    /\ Len(report') = Len(report) + 1
    /\ report'[Len(report')].kind = "error"
    /\ report'[Len(report')].device = "chest"

\* Segment k has a line of this device and kind.
Reported(k, v, kinds) ==
    \E i \in 1..Len(report) :
        report[i].seg = k /\ report[i].device = v /\ report[i].kind \in kinds

LabelAt(index) == beat_labels[index + 1]

\* An overlay of this instrument stands at this index.
Placed(inst, index) ==
    \E i \in 1..Len(output_audio) :
        output_audio[i].inst = inst /\ output_audio[i].index = index

\* C33: every overlay of create_beat stands at index / rate * 1000 ms, before
\* the end of the silent track; a kick is 6 dB down where the label is 4 and
\* at full level elsewhere, a hi-hat stands only where the label is 2 or 3, a
\* snare only where it is 2; and the beat that is returned has a kick at every
\* heartbeat index, a hi-hat at every EDA index labelled 2 or 3 and a snare at
\* every EMG index labelled 2.
C33_LabelDrivenArrangement ==
    /\ \A i \in 1..Len(output_audio) :
         LET o == output_audio[i]
         IN /\ o.pos * beat_rate = o.index * 1000 * TimeScale
            /\ o.pos >= 0
            /\ o.pos < duration_ms
            /\ o.inst = "kick" => o.gain = (IF LabelAt(o.index) = 4 THEN 0 - 6 ELSE 0)
            /\ o.inst = "hihat" => LabelAt(o.index) \in {2, 3}
            /\ o.inst = "snare" => LabelAt(o.index) = 2
    /\ beat_pc = "returned" =>
         /\ \A i \in 1..Len(kick_indices) : Placed("kick", kick_indices[i])
         /\ \A i \in 1..Len(hihat_indices) :
              LabelAt(hihat_indices[i]) \in {2, 3} => Placed("hihat", hihat_indices[i])
         /\ \A i \in 1..Len(snare_indices) :
              LabelAt(snare_indices[i]) = 2 => Placed("snare", snare_indices[i])

\* A returned beat with a quiet kick on a meditation label, a hi-hat and a
\* snare on a stress label, and an EDA event on the meditation label that got
\* no hi-hat.
C33_Witness ==
    /\ beat_pc = "returned"
    /\ \E i \in 1..Len(output_audio) :
         output_audio[i].inst = "kick" /\ output_audio[i].gain = 0 - 6
    /\ \E i \in 1..Len(output_audio) :
         output_audio[i].inst = "hihat" /\ output_audio[i].pos > 0
    /\ \E i \in 1..Len(output_audio) : output_audio[i].inst = "snare"
    /\ \E i \in 1..Len(hihat_indices) :
         LabelAt(hihat_indices[i]) = 4 /\ ~Placed("hihat", hihat_indices[i])

\* The records appended for the window that starts at this index.
RecordsOf(start) ==
    {i \in 1..Len(features_to_create) : features_to_create[i].start = start}

\* C38 as claimed: when _extract_features returns, every window
\* [k * WINDOW_SAMPLES, (k + 1) * WINDOW_SAMPLES) that lies within the labels
\* has been examined, and each window whose most common label is 1, 2 or 3 has
\* its two records, one of the chest and one of the wrist.
C38_EveryCompleteWindowExamined ==
    (feat_pc = "returned") =>
        \A k \in 0..MaxLabels :
            ((k + 1) * WindowSamples <= Len(feat_labels)) =>
                /\ k * WindowSamples \in examined
                /\ MostCommonLabel(WindowLabels(feat_labels, k * WindowSamples))
                       \in {1, 2, 3} =>
                     /\ Cardinality(RecordsOf(k * WindowSamples)) = 2
                     /\ {features_to_create[i].device_location :
                            i \in RecordsOf(k * WindowSamples)} = {"CHEST", "WRIST"}

=============================================================================
